---- MODULE Spec2Model ----
(***************************************************************************)
(* vpnrd: supervision of the sing-box tunnel process (internal/singboxctl), *)
(* the recovery sequence (doRecovery) and the watchdog loop (cmdRun).       *)
(*                                                                          *)
(* The operating system is the environment: tunnel processes die, external  *)
(* sing-box processes appear, utun interfaces come, go and gain addresses.  *)
(* A blocking call of the code (a polling loop with sleeps) is a program    *)
(* position at which the environment may act between two polls.  PIDs are   *)
(* handed out in increasing order and never reused.                         *)
(***************************************************************************)
EXTENDS Integers, Sequences, FiniteSets, TLC

\* ------------------------------------------------------------------ bounds
MaxPid == 3                    \* PIDs are 2..MaxPid
Pids == 2..MaxPid
Utuns == {"utun0", "utun7"}
UtunOrder == <<"utun0", "utun7">>          \* net.Interfaces() order
IfStates == {"absent", "noip", "ip4"}

VARIABLES
  proc,        \* [Pids -> {"free","alive","dead"}]   the process table
  started,     \* PIDs started by startSingBox (by this or an earlier vpnrd run)
  pidfile,     \* the ownership record file: [st: absent|junk|num, n: Int]
  ifaces,      \* [Utuns -> IfStates]
  sigs,        \* signals sent by the running entry point: [pid, sig]
  op,          \* the entry point that is running: none|ensure|stop|recover|up|down|run
  pc,          \* position inside it
  cfg,         \* the configuration the entry point was given
  pid,         \* EnsureRunning's / stopPID's pid
  kind,        \* EnsureRunning's path: ""|owned|adopted|started
  before,      \* EnsureRunning's snapshot (beforeSet, beforeNoIPv4)
  entry,       \* what readPID returned to EnsureRunning
  stopFrom,    \* the caller of stopPID: ""|sio|er_write|er_wait; "ctx done"
               \* when RestartOwned goes on under a cancelled context
  st,          \* the Status last returned by EnsureRunning
  err,         \* the error last returned ("" is nil)
  lastOp,      \* the operation that returned last, with nothing happening since
  wcfg,        \* the watchdog's FailureThreshold and MaxRecoveries
  consecutiveFails, recoveries, recErr,  \* cmdRun's counters, doRecovery's error
  h,           \* cmdRun's last probe: none|ok|fail
  report,      \* what cmdRun logged after the post-recovery probe
  probes,      \* HTTP probes cmdRun has made since it last waited for a tick
  hcIn,        \* the HTTP exchange and expectedIPs given to CheckExpected
  hcRes,       \* the Result CheckExpected returned
  scIn,        \* what happens to the command RunScript runs
  scRes,       \* what RunScript returned
  mIn,         \* main's inputs: the config file, the command line, the euid
  mSt,         \* main's position, the loaded config, what it has done so far
  inv,         \* two vpnrd invocations at once: the frame of each
  calls        \* supervisor operations those two have begun

world == <<proc, started, pidfile, ifaces>>
locals == <<pid, kind, before, entry, stopFrom>>
wd == <<wcfg, consecutiveFails, recoveries, recErr, h, report, probes>>
hc == <<hcIn, hcRes>>
sc == <<scIn, scRes>>
mn == <<mIn, mSt>>
cc == <<inv, calls>>
fn == <<hc, sc, mn, cc>>
vars == <<proc, started, pidfile, ifaces, sigs, op, pc, cfg, pid, kind, before,
          entry, stopFrom, st, err, lastOp, wcfg, consecutiveFails, recoveries, recErr,
          h, report, probes, hcIn, hcRes, scIn, scRes,
          mIn, mSt, inv, calls>>

\* ------------------------------------------------------------- the record
NoFile == [st |-> "absent", n |-> 0]
JunkFile == [st |-> "junk", n |-> 0]
NumFile(n) == [st |-> "num", n |-> n]

\* A readPID that takes every positive number for a pid.
readPIDFromOne(f) ==
  IF f.st = "num" /\ f.n >= 1 THEN [pid |-> f.n, ok |-> TRUE]
  ELSE [pid |-> 0, ok |-> FALSE]

\* readPID: a missing file, unparsable text or a value <= 1 is "no record".
readPID(f) ==
  IF f.st = "num" /\ f.n > 1 THEN [pid |-> f.n, ok |-> TRUE]
  ELSE [pid |-> 0, ok |-> FALSE]

\* processAlive: kill(pid, 0) succeeds; pid <= 1 is never alive.
processAlive(pr, p) == p > 1 /\ p \in DOMAIN pr /\ pr[p] = "alive"

\* ------------------------------------------------------------- interfaces
\* listUTUN: the utun names present, and those present without an IPv4
\* address.  aerr are the interfaces whose Addrs() call failed: they are put
\* in the set and the loop continues before they could be put in noIPv4.
listUTUN(ifs, aerr) ==
  [set    |-> {u \in Utuns : ifs[u] # "absent"},
   noIPv4 |-> {u \in Utuns : ifs[u] = "noip" /\ u \notin aerr}]

\* pickAnyUTUNWithIPv4 ranges over a Go map: any present name not in noIPv4.
pickAnyUTUNWithIPv4(present, noIPv4) ==
  {u \in present : u # "" /\ u \notin noIPv4}

RECURSIVE FirstWithIPv4(_, _, _)
FirstWithIPv4(i, ifs, aerr) ==
  IF i > Len(UtunOrder) THEN ""
  ELSE IF ifs[UtunOrder[i]] = "ip4" /\ UtunOrder[i] \notin aerr THEN UtunOrder[i]
  ELSE FirstWithIPv4(i + 1, ifs, aerr)

\* findUTUNWithIPv4: the first utun, in enumeration order, with an IPv4 address.
findUTUNWithIPv4(ifs, aerr) == FirstWithIPv4(1, ifs, aerr)

\* utunHasIPv4: InterfaceByName and Addrs succeeded and an IPv4 address is there.
utunHasIPv4(name, ifs, aerr) ==
  name \in Utuns /\ ifs[name] = "ip4" /\ name \notin aerr

RECURSIVE FirstTunName(_, _)
FirstTunName(inb, i) ==
  IF i > Len(inb) THEN ""
  ELSE IF inb[i].type = "tun" /\ inb[i].interface_name # "" THEN inb[i].interface_name
  ELSE FirstTunName(inb, i + 1)

\* tunNameFromConfig: the interface_name of the first tun inbound that has one.
tunNameFromConfig(inb) == FirstTunName(inb, 1)

\* A poll that takes the first ready utun whatever name is preferred.
waitPollAnyReady(bef, preferUTUN, ifs, aerr) ==
  findUTUNWithIPv4(ifs, aerr)

\* One poll of waitForUTUNReady: the name it returns, or "" to sleep and retry.
\* Without a preferred name all three branches of the code return utun.
waitPoll(bef, preferUTUN, ifs, aerr) ==
  IF preferUTUN # ""
  THEN IF utunHasIPv4(preferUTUN, ifs, aerr) THEN preferUTUN ELSE ""
  ELSE LET utun == findUTUNWithIPv4(ifs, aerr) IN
       IF utun = "" THEN ""
       ELSE IF ~(utun \in bef.set) \/ utun \in bef.noIPv4 THEN utun
       ELSE utun

\* -------------------------------------------------------------- processes
AlivePids(pr) == {p \in Pids : pr[p] = "alive"}
FreePids(pr) == {p \in Pids : pr[p] = "free"}
Min(S) == CHOOSE x \in S : \A y \in S : x <= y

\* exec.Command("pgrep", "-af", "sing-box").Output(): an error (pgrep could
\* not be run, or exited with a status other than 0), or the lines of the
\* live processes whose command line holds "sing-box run -c <config>", in any
\* order.  Every process of the model is such a process.
PgrepOutputs(pr) ==
  LET A == AlivePids(pr)
      n == Cardinality(A)
      lists == {s \in [1..n -> A] : \A i, j \in 1..n : i # j => s[i] # s[j]} IN
  {[err |-> TRUE, lines |-> <<>>]}
    \cup {[err |-> FALSE, lines |-> s] : s \in lists}

RECURSIVE FirstAlive(_, _, _)
FirstAlive(lines, i, pr) ==
  IF i > Len(lines) THEN [pid |-> 0, ok |-> FALSE]
  ELSE IF processAlive(pr, lines[i]) THEN [pid |-> lines[i], ok |-> TRUE]
  ELSE FirstAlive(lines, i + 1, pr)

\* findExternalSingBoxPID: nothing when pgrep failed, else the first listed
\* line whose pid is alive.
findExternalSingBoxPID(out, pr) ==
  IF out.err THEN [pid |-> 0, ok |-> FALSE] ELSE FirstAlive(out.lines, 1, pr)

\* ------------------------------------------------------------ configuration
SingBoxConfigs ==
  { <<[type |-> "mixed", interface_name |-> "utun0"]>>,
    <<[type |-> "tun", interface_name |-> ""],
      [type |-> "tun", interface_name |-> "utun7"]>> }

\* boolVal(cfg.SingBoxAdoptExternal, true) after config.Load
Cfgs == [adopt : BOOLEAN, inbounds : SingBoxConfigs]

NoCfg == [adopt |-> FALSE, inbounds |-> <<>>]
\* config.Load: applyDefaults replaces a zero; validate does not look at the
\* watchdog's fields.
DefaultFailureThreshold == 3
DefaultMaxRecoveries == 5
RawWatchdogCfgs ==
  { [FailureThreshold |-> 2, MaxRecoveries |-> 2],
    [FailureThreshold |-> -1, MaxRecoveries |-> 1],
    [FailureThreshold |-> 2, MaxRecoveries |-> -1] }
applyDefaults(c) ==
  [FailureThreshold |->
     IF c.FailureThreshold = 0 THEN DefaultFailureThreshold ELSE c.FailureThreshold,
   MaxRecoveries |->
     IF c.MaxRecoveries = 0 THEN DefaultMaxRecoveries ELSE c.MaxRecoveries]
WatchdogCfgs ==
  {applyDefaults(c) : c \in RawWatchdogCfgs}
NoWatchdogCfg == applyDefaults([FailureThreshold |-> 0, MaxRecoveries |-> 0])
MaxFails == 3                  \* the model stops counting failed probes here

\* ------------------------------------------------------------ healthcheck
\* Strings are sequences of characters; " " stands for white space.
MaxBody == 2                   \* longest response body
MaxExpected == 2               \* longest expectedIPs list
Strings(n) == UNION {[1..k -> {"a", "b", " "}] : k \in 0..n}

RECURSIVE TrimLeft(_)
TrimLeft(s) == IF s # <<>> /\ Head(s) = " " THEN TrimLeft(Tail(s)) ELSE s
RECURSIVE TrimRight(_)
TrimRight(s) ==
  IF s # <<>> /\ s[Len(s)] = " " THEN TrimRight(SubSeq(s, 1, Len(s) - 1)) ELSE s

\* strings.TrimSpace
TrimSpace(s) == TrimRight(TrimLeft(s))

StatusOK == 200
\* What the HTTP exchange gives: an error of NewRequest or client.Do, or a
\* status code and the body as read.
Exchanges ==
  [fail : {"new request", "http do"}, status : {0}, body : {<<>>}]
    \cup [fail : {""}, status : {StatusOK, 503}, body : Strings(MaxBody)]
ExpectedEntries == Strings(1) \cup {<<" ", "a">>}
ExpectedLists == UNION {[1..k -> ExpectedEntries] : k \in 0..MaxExpected}
HealthInputs == [x : Exchanges, expectedIPs : ExpectedLists]
NoProbe == [x |-> [fail |-> "http do", status |-> 0, body |-> <<>>],
            expectedIPs |-> <<>>]
NoResult == [OK |-> FALSE, StatusCode |-> 0, Body |-> <<>>, Err |-> "not run"]

\* Check: OK is HTTP 200 and a non-empty trimmed body.
Check(x) ==
  IF x.fail # ""
  THEN [OK |-> FALSE, StatusCode |-> 0, Body |-> <<>>, Err |-> x.fail]
  ELSE LET body == TrimSpace(x.body) IN
       [OK |-> (x.status = StatusOK /\ body # <<>>), StatusCode |-> x.status,
        Body |-> body, Err |-> ""]

\* for _, ip := range expectedIPs { if strings.TrimSpace(ip) == body ...
RECURSIVE MatchesFrom(_, _, _)
MatchesFrom(expectedIPs, i, body) ==
  IF i > Len(expectedIPs) THEN FALSE
  ELSE IF TrimSpace(expectedIPs[i]) = body THEN TRUE
  ELSE MatchesFrom(expectedIPs, i + 1, body)

\* A CheckExpected that compares the body with the entries as they are.
CheckExpectedExact(x, expectedIPs) ==
  LET res == Check(x) IN
  IF ~res.OK THEN res
  ELSE IF Len(expectedIPs) = 0 THEN res
  ELSE LET body == TrimSpace(res.Body) IN
       IF \E i \in 1..Len(expectedIPs) : expectedIPs[i] = body THEN res
       ELSE [res EXCEPT !.OK = FALSE, !.Err = "unexpected egress ip"]

CheckExpected(x, expectedIPs) ==
  LET res == Check(x) IN
  IF ~res.OK THEN res
  ELSE IF Len(expectedIPs) = 0 THEN res
  ELSE LET body == TrimSpace(res.Body) IN
       IF MatchesFrom(expectedIPs, 1, body) THEN res
       ELSE [res EXCEPT !.OK = FALSE, !.Err = "unexpected egress ip"]

\* -------------------------------------------------------------- RunScript
\* What happens to the command: it could not be started, it exited by itself
\* with a status, or it was ended by a signal (the kill at the deadline is
\* one); whether the deadline of the call has passed when cmd.Run returns;
\* and what it wrote.
Commands ==
  [how : {"nostart", "signal"}, code : {0}, expired : BOOLEAN,
   stdout : Strings(1), stderr : Strings(1)]
    \cup [how : {"exit"}, code : {0, 1, 2}, expired : BOOLEAN,
          stdout : Strings(1), stderr : Strings(1)]
NoCommand == [how |-> "nostart", code |-> 0, expired |-> FALSE,
              stdout |-> <<>>, stderr |-> <<>>]
NilResult == [ExitCode |-> 0, Stdout |-> <<"nil">>, Stderr |-> <<"nil">>]
NoScriptResult == [res |-> NilResult, err |-> "not run", runs |-> 0]

\* cmd.Run: the errors it can return.  A command that did not start gives
\* the start error, or the context's error when the deadline had passed
\* before Start; an exit status other than 0 or a signal gives an
\* *exec.ExitError; exit status 0 gives nil, or, when the deadline passed
\* and its Kill reached the process after it had exited and before it was
\* reaped, the context's error, which is not an *exec.ExitError.
cmdRunError(x) ==
  CASE x.how = "nostart" ->
         {"start error"} \cup (IF x.expired THEN {"deadline exceeded"} ELSE {})
    [] x.how = "signal" -> {"ExitError"}
    [] x.how = "exit" ->
         IF x.code # 0 THEN {"ExitError"}
         ELSE {""} \cup (IF x.expired THEN {"deadline exceeded"} ELSE {})

\* exitCode: 0 for nil, ee.ExitCode() for an ExitError (-1 when the process
\* was ended by a signal), -1 for any other error.
exitCode(e, x) ==
  IF e = "" THEN 0
  ELSE IF e = "ExitError" THEN (IF x.how = "exit" THEN x.code ELSE -1)
  ELSE -1

\* RunScript: one cmd.Run, the Result, then the deadline before the error;
\* one return value for each error cmd.Run can return.
RunScript(x) ==
  {[res |-> [ExitCode |-> exitCode(e, x), Stdout |-> TrimSpace(x.stdout),
             Stderr |-> TrimSpace(x.stderr)],
    err |-> IF x.expired THEN "command timed out"
            ELSE IF e # "" THEN "command failed" ELSE "",
    runs |-> 1] : e \in cmdRunError(x)}

\* ------------------------------------------------------------------- main
\* Durations are whole seconds.  The config file gives check_interval and
\* health_timeout (0 when the key is missing); the command line gives
\* --health-timeout before the subcommand (0 when missing) and, for run and
\* status, possibly once more after it.
DefaultCheckInterval == 10
DefaultHealthTimeout == 5
DefaultRecoverCooldown == 5
DefaultCommandTimeout == 20
DefaultSingBoxStartTimeout == 8
RootUid == 0

\* The watchdog keys of the config file (0 when the key is missing).
WatchdogKeys ==
  { [failure_threshold |-> 0, max_recoveries |-> 0, recover_cooldown |-> 0],
    [failure_threshold |-> 2, max_recoveries |-> 2, recover_cooldown |-> 3],
    [failure_threshold |-> -1, max_recoveries |-> 2, recover_cooldown |-> 3],
    [failure_threshold |-> 2, max_recoveries |-> -1, recover_cooldown |-> 3],
    [failure_threshold |-> 2, max_recoveries |-> 2, recover_cooldown |-> -1] }

\* The sing-box keys of the config file: singbox_adopt_external is a *bool
\* ("nil" when the key is missing), the paths are strings, " " is white space.
SingBoxKeys ==
  { [singbox_auto_start |-> FALSE, singbox_path |-> <<>>,
     singbox_config_path |-> <<>>, singbox_adopt_external |-> "nil",
     singbox_start_timeout |-> -1],
    [singbox_auto_start |-> TRUE, singbox_path |-> <<>>,
     singbox_config_path |-> <<"c">>, singbox_adopt_external |-> "nil",
     singbox_start_timeout |-> 0],
    [singbox_auto_start |-> TRUE, singbox_path |-> <<"s">>,
     singbox_config_path |-> <<"c">>, singbox_adopt_external |-> "true",
     singbox_start_timeout |-> 2],
    [singbox_auto_start |-> TRUE, singbox_path |-> <<"s">>,
     singbox_config_path |-> <<>>, singbox_adopt_external |-> "false",
     singbox_start_timeout |-> 2],
    [singbox_auto_start |-> TRUE, singbox_path |-> <<"s">>,
     singbox_config_path |-> <<" ">>, singbox_adopt_external |-> "false",
     singbox_start_timeout |-> 2],
    [singbox_auto_start |-> TRUE, singbox_path |-> <<"s">>,
     singbox_config_path |-> <<" ">>, singbox_adopt_external |-> "nil",
     singbox_start_timeout |-> 2],
    [singbox_auto_start |-> TRUE, singbox_path |-> <<"s">>,
     singbox_config_path |-> <<"c">>, singbox_adopt_external |-> "true",
     singbox_start_timeout |-> -1] }

\* The config file, the command line and the euid of one run of vpnrd.
Invocations ==
  [file : {"unreadable", "bad yaml", "ok"}, scripts : BOOLEAN,
   check_interval : {-1, 0, 7}, health_timeout : {-1, 0, 4},
   command_timeout : {-1, 0, 2},
   watchdog : WatchdogKeys, singbox : SingBoxKeys,
   cliHealthTimeout : {-2, 0, 2},
   extra : {[given |-> FALSE, v |-> 0], [given |-> TRUE, v |-> 3]},
   euid : {RootUid, 501}, cmd : {"up", "down", "run", "status", "bogus"}]
NoInvocation ==
  [file |-> "unreadable", scripts |-> FALSE, check_interval |-> 0,
   health_timeout |-> 0, command_timeout |-> 0,
   watchdog |-> [failure_threshold |-> 0, max_recoveries |-> 0,
                 recover_cooldown |-> 0],
   singbox |-> [singbox_auto_start |-> FALSE, singbox_path |-> <<>>,
                singbox_config_path |-> <<>>, singbox_adopt_external |-> "nil",
                singbox_start_timeout |-> 0],
   cliHealthTimeout |-> 0,
   extra |-> [given |-> FALSE, v |-> 0], euid |-> RootUid, cmd |-> "bogus"]
NoTimes ==
  [CheckInterval |-> 0, HealthTimeout |-> 0, RecoverCooldown |-> 0,
   CommandTimeout |-> 0, SingBoxStartTimeout |-> 0,
   FailureThreshold |-> 0, MaxRecoveries |-> 0]
NotStarted ==
  [pc |-> "start", cfg |-> NoTimes, healthTimeout |-> 0, interval |-> 0,
   loads |-> 0, acted |-> "none"]

\* applyDefaults: a zero check_interval, command_timeout,
\* singbox_start_timeout, health_timeout or recover_cooldown gets its default.
applyTimeDefaults(i) ==
  [CheckInterval |->
     IF i.check_interval = 0 THEN DefaultCheckInterval ELSE i.check_interval,
   CommandTimeout |->
     IF i.command_timeout = 0 THEN DefaultCommandTimeout ELSE i.command_timeout,
   SingBoxStartTimeout |->
     IF i.singbox.singbox_start_timeout = 0 THEN DefaultSingBoxStartTimeout
     ELSE i.singbox.singbox_start_timeout,
   HealthTimeout |->
     IF i.health_timeout = 0 THEN DefaultHealthTimeout ELSE i.health_timeout,
   RecoverCooldown |->
     IF i.watchdog.recover_cooldown = 0 THEN DefaultRecoverCooldown
     ELSE i.watchdog.recover_cooldown]

\* applyDefaults: an empty singbox_path gets its default.
SingBoxPath(i) ==
  IF i.singbox.singbox_path = <<>> THEN <<"s">>
  ELSE i.singbox.singbox_path

\* Config.AdoptExternal: a missing singbox_adopt_external is true.
AdoptExternal(i) == i.singbox.singbox_adopt_external # "false"

\* validate, the block for singbox_auto_start.
validateSingBox(i, c) ==
  i.singbox.singbox_auto_start =>
    /\ SingBoxPath(i) # <<>>
    /\ i.singbox.singbox_config_path # <<>>
    /\ ~(AdoptExternal(i) /\ TrimSpace(i.singbox.singbox_config_path) = <<>>)
    /\ ~(c.SingBoxStartTimeout < 1)

\* validate: no problem was found.  The two scripts are there and
\* executable, check_interval >= 1s, command_timeout >= 1s.
validate(i, c) ==
  /\ validateSingBox(i, c)
  /\ i.scripts
  /\ ~(c.CheckInterval < 1)
  /\ ~(c.CommandTimeout < 1)

\* config.Load: read, parse, applyDefaults, validate.
Load(i) ==
  IF i.file # "ok" THEN [ok |-> FALSE, cfg |-> NoTimes]
  ELSE LET t == applyTimeDefaults(i)
           w == applyDefaults([FailureThreshold |-> i.watchdog.failure_threshold,
                               MaxRecoveries |-> i.watchdog.max_recoveries])
           c == [CheckInterval |-> t.CheckInterval,
                 HealthTimeout |-> t.HealthTimeout,
                 RecoverCooldown |-> t.RecoverCooldown,
                 CommandTimeout |-> t.CommandTimeout,
                 SingBoxStartTimeout |-> t.SingBoxStartTimeout,
                 FailureThreshold |-> w.FailureThreshold,
                 MaxRecoveries |-> w.MaxRecoveries] IN
       IF validate(i, c) THEN [ok |-> TRUE, cfg |-> c]
       ELSE [ok |-> FALSE, cfg |-> NoTimes]

\* main: the config's health timeout, the flag before the subcommand when it
\* is not 0, and for run and status the flag after the subcommand.
effectiveHealthTimeout(i, c) ==
  LET first == IF i.cliHealthTimeout # 0 THEN i.cliHealthTimeout
               ELSE c.HealthTimeout IN
  IF i.cmd \in {"run", "status"} /\ i.extra.given THEN i.extra.v ELSE first

\* cmdRun: interval := cfg.CheckInterval; if healthTimeout > 0 { interval =
\* healthTimeout }
tickInterval(c, healthTimeout) ==
  IF healthTimeout > 0 THEN healthTimeout ELSE c.CheckInterval

\* What each subcommand does first once it is allowed to go on.
FirstAction(cmd) ==
  CASE cmd = "up" -> "setup script"
    [] cmd = "down" -> "StopIfOwned"
    [] cmd = "run" -> "probe"
    [] cmd = "status" -> "snapshot"

NoStatus == [Running |-> FALSE, PID |-> 0, OwnedByUs |-> FALSE, NewUTUN |-> ""]
NoSnapshot == [set |-> {}, noIPv4 |-> {}]
NoEntry == [pid |-> 0, ok |-> FALSE]
Daemons == {"A", "B"}
NoFrame ==
  [op |-> "none", pc |-> "idle", pid |-> 0, kind |-> "", stopFrom |-> "",
   err |-> "", sigs |-> {}, lines |-> <<>>, linked |-> FALSE]
NoOp == [op |-> "none", ok |-> FALSE, signalled |-> FALSE, recoveries |-> 0]
PresentUtuns == {u \in Utuns : ifaces[u] # "absent"}

\* Inspect: the record alone decides OwnedByUs, alive or not.
Inspect(f, pr) ==
  LET r == readPID(f) IN
  IF ~r.ok THEN [Running |-> FALSE, PID |-> 0, OwnedByUs |-> FALSE, NewUTUN |-> ""]
  ELSE IF processAlive(pr, r.pid)
       THEN [Running |-> TRUE, PID |-> r.pid, OwnedByUs |-> TRUE, NewUTUN |-> ""]
       ELSE [Running |-> FALSE, PID |-> r.pid, OwnedByUs |-> TRUE, NewUTUN |-> ""]

\* A signal to the process group -pid and to pid.
Signal(p, s) == [pid |-> p, sig |-> s]

\* ------------------------------------------------------------- Init
InitSupervisor ==
  /\ proc = [p \in Pids |-> "free"]
  /\ started = {}
  /\ pidfile \in {NoFile, JunkFile, NumFile(0), NumFile(1)}
  /\ ifaces = [u \in Utuns |-> "absent"]
  /\ sigs = {}
  /\ op = "none" /\ pc = "idle"
  /\ cfg = NoCfg
  /\ pid = 0 /\ kind = "" /\ before = NoSnapshot /\ entry = NoEntry /\ stopFrom = ""
  /\ st = NoStatus /\ err = ""
  /\ lastOp = NoOp
  /\ wcfg = NoWatchdogCfg
  /\ consecutiveFails = 0 /\ recoveries = 0 /\ recErr = FALSE
  /\ h = "none" /\ report = "none" /\ probes = 0

Init ==
  /\ InitSupervisor
  /\ hcIn = NoProbe /\ hcRes = NoResult
  /\ scIn = NoCommand /\ scRes = NoScriptResult
  /\ mIn = NoInvocation /\ mSt = NotStarted
  /\ inv = [d \in Daemons |-> NoFrame] /\ calls = 0

\* ------------------------------------------------------------- environment
\* The environment acts where the program waits: between entry points, in a
\* polling loop's sleep, while a script or pgrep runs.
EnvMayAct ==
  pc \in {"idle", "er_pgrep", "er_wait", "stop_sleep", "stop_check", "pf_apply",
          "down_script", "w_tick", "w_cooldown", "so_wait", "so_killed"}

ProcDie ==
  /\ UNCHANGED fn
  /\ EnvMayAct
  /\ \E p \in Pids : proc[p] = "alive" /\ proc' = [proc EXCEPT ![p] = "dead"]
  /\ lastOp' = NoOp
  /\ UNCHANGED <<started, pidfile, ifaces, sigs, op, pc, cfg, locals, st, err, wd>>

\* Somebody else starts "sing-box run -c <config>".
ExtSpawn ==
  /\ UNCHANGED fn
  /\ EnvMayAct
  /\ FreePids(proc) # {}
  /\ proc' = [proc EXCEPT ![Min(FreePids(proc))] = "alive"]
  /\ lastOp' = NoOp
  /\ UNCHANGED <<started, pidfile, ifaces, sigs, op, pc, cfg, locals, st, err, wd>>

IfChange ==
  /\ UNCHANGED fn
  /\ EnvMayAct
  /\ \E u \in Utuns, s \in IfStates :
       ifaces[u] # s /\ ifaces' = [ifaces EXCEPT ![u] = s]
  /\ lastOp' = NoOp
  /\ UNCHANGED <<proc, started, pidfile, sigs, op, pc, cfg, locals, st, err, wd>>

\* ------------------------------------------------------------- stopPID
\* A return of stopPID after which StopIfOwned never removes the record.
StopReturnKeepsRecord(failed) ==
  /\ CASE stopFrom = "sio" ->
            /\ pidfile' = pidfile
            /\ err' = IF failed THEN "failed to stop sing-box" ELSE ""
            /\ pc' = "sio_ret"
            /\ st' = st
       [] stopFrom = "er_write" ->
            /\ pidfile' = pidfile
            /\ err' = "pidfile write"
            /\ pc' = "er_ret"
            /\ st' = NoStatus
       [] stopFrom = "er_wait" ->
            /\ pidfile' = NoFile
            /\ err' = "sing-box started but no utun appeared before timeout"
            /\ pc' = "er_ret"
            /\ st' = NoStatus
  /\ stopFrom' = ""

\* stopPID returns to its caller.  StopIfOwned returns the error and keeps
\* the record, or removes the record; EnsureRunning ignores stopPID's error
\* and, after a readiness timeout, removes the record.
StopReturn(failed) ==
  /\ CASE stopFrom = "sio" ->
            /\ pidfile' = IF failed THEN pidfile ELSE NoFile
            /\ err' = IF failed THEN "failed to stop sing-box" ELSE ""
            /\ pc' = "sio_ret"
            /\ st' = st
       [] stopFrom = "er_write" ->
            /\ pidfile' = pidfile
            /\ err' = "pidfile write"
            /\ pc' = "er_ret"
            /\ st' = NoStatus
       [] stopFrom = "er_wait" ->
            /\ pidfile' = NoFile
            /\ err' = "sing-box started but no utun appeared before timeout"
            /\ pc' = "er_ret"
            /\ st' = NoStatus
  /\ stopFrom' = ""

\* A stopPID that begins with the forceful signal.
StopTermKillsAtOnce ==
  /\ UNCHANGED fn
  /\ pc = "stop_term"
  /\ sigs' = sigs \cup {Signal(pid, "KILL")}
  /\ pc' = "stop_poll"
  /\ lastOp' = NoOp
  /\ UNCHANGED <<world, op, cfg, locals, st, err, wd>>

\* term(), p.Signal(SIGTERM)
StopTerm ==
  /\ UNCHANGED fn
  /\ pc = "stop_term"
  /\ sigs' = sigs \cup {Signal(pid, "TERM")}
  /\ pc' = "stop_poll"
  /\ lastOp' = NoOp
  /\ UNCHANGED <<world, op, cfg, locals, st, err, wd>>

\* a poll of the grace period, the first one or one after a sleep, finds
\* the process gone
StopPollDead ==
  /\ UNCHANGED fn
  /\ pc \in {"stop_poll", "stop_sleep"}
  /\ ~processAlive(proc, pid)
  /\ StopReturn(FALSE)
  /\ lastOp' = NoOp
  /\ UNCHANGED <<proc, started, ifaces, sigs, op, cfg, pid, kind, before, entry, wd>>

\* the first poll, right after the SIGTERM, finds the process alive:
\* time.Sleep(150ms)
StopPollAlive ==
  /\ UNCHANGED fn
  /\ pc = "stop_poll"
  /\ processAlive(proc, pid)
  /\ pc' = "stop_sleep"
  /\ lastOp' = NoOp
  /\ UNCHANGED <<world, sigs, op, cfg, locals, st, err, wd>>

\* the process was alive at every poll and the sleep after the last one ends
\* past the deadline: kill(), whatever has happened to the process since
StopKill ==
  /\ UNCHANGED fn
  /\ pc = "stop_sleep"
  /\ sigs' = sigs \cup {Signal(pid, "KILL")}
  /\ pc' = "stop_check"
  /\ lastOp' = NoOp
  /\ UNCHANGED <<world, op, cfg, locals, st, err, wd>>

\* 200 ms after the kill
StopCheck ==
  /\ UNCHANGED fn
  /\ pc = "stop_check"
  /\ StopReturn(processAlive(proc, pid))
  /\ lastOp' = NoOp
  /\ UNCHANGED <<proc, started, ifaces, sigs, op, cfg, pid, kind, before, entry, wd>>

\* ------------------------------------------------------------- StopIfOwned
\* A StopIfOwned that leaves the record of a dead process in place.
StopIfOwnedKeepsStale ==
  /\ UNCHANGED fn
  /\ pc = "sio"
  /\ LET r == readPID(pidfile) IN
     IF ~r.ok \/ ~processAlive(proc, r.pid)
     THEN /\ err' = "" /\ pc' = "sio_ret"
          /\ UNCHANGED <<pidfile, pid, stopFrom>>
     ELSE /\ pid' = r.pid /\ stopFrom' = "sio" /\ pc' = "stop_term"
          /\ UNCHANGED <<pidfile, err>>
  /\ UNCHANGED <<proc, started, ifaces, sigs, op, cfg, kind, before, entry, st,
                 lastOp, wd>>

StopIfOwned ==
  /\ UNCHANGED fn
  /\ pc = "sio"
  /\ LET r == readPID(pidfile) IN
     IF ~r.ok
     THEN /\ err' = "" /\ pc' = "sio_ret"
          /\ UNCHANGED <<pidfile, pid, stopFrom>>
     ELSE IF ~processAlive(proc, r.pid)
     THEN /\ pidfile' = NoFile /\ err' = "" /\ pc' = "sio_ret"
          /\ UNCHANGED <<pid, stopFrom>>
     ELSE /\ pid' = r.pid /\ stopFrom' = "sio" /\ pc' = "stop_term"
          /\ UNCHANGED <<pidfile, err>>
  /\ UNCHANGED <<proc, started, ifaces, sigs, op, cfg, kind, before, entry, st,
                 lastOp, wd>>

\* ------------------------------------------------------------- EnsureRunning
\* A Status that claims ownership on every path.
StatusAlwaysOwned(p, utun, k) ==
  [Running |-> TRUE, PID |-> p, OwnedByUs |-> TRUE, NewUTUN |-> utun]

Status(p, utun, k) ==
  [Running |-> TRUE, PID |-> p, OwnedByUs |-> (k # "adopted"), NewUTUN |-> utun]

\* 1) pidfile + alive => owned, 2) with adoption enabled go on to look for an
\* external process, 3) otherwise go on to start sing-box.
ErDecide ==
  LET r == readPID(pidfile) IN
  IF r.ok /\ processAlive(proc, r.pid)
  THEN [kind |-> "owned", pid |-> r.pid, pc |-> "er_pick"]
  ELSE IF cfg.adopt
  THEN [kind |-> "", pid |-> 0, pc |-> "er_pgrep"]
  ELSE [kind |-> "started", pid |-> 0, pc |-> "er_start"]

\* 2) adopt the process findExternalSingBoxPID returned when it is alive,
\* 3) otherwise go on to start sing-box.
ErAdopt(out) ==
  LET f == findExternalSingBoxPID(out, proc) IN
  IF f.ok /\ f.pid > 0 /\ processAlive(proc, f.pid)
  THEN [kind |-> "adopted", pid |-> f.pid, pc |-> "er_pick"]
  ELSE [kind |-> "started", pid |-> 0, pc |-> "er_start"]

\* EnsureRunning up to pickReady, pgrep or startSingBox: the snapshot, the
\* preferred name, the test of the record.
ErBegin ==
  /\ UNCHANGED fn
  /\ pc = "er_begin"
  /\ \/ \* net.Interfaces() fails in listUTUN
        /\ err' = "list utun (before)" /\ st' = NoStatus /\ pc' = "er_ret"
        /\ UNCHANGED <<pid, kind, before, entry>>
     \/ \E aerr \in SUBSET PresentUtuns :
          LET d == ErDecide IN
          /\ before' = listUTUN(ifaces, aerr)
          /\ entry' = readPID(pidfile)
          /\ kind' = d.kind /\ pid' = d.pid /\ pc' = d.pc
          /\ UNCHANGED <<st, err>>
  /\ lastOp' = NoOp
  /\ UNCHANGED <<world, sigs, op, cfg, stopFrom, wd>>

\* findExternalSingBoxPID: EnsureRunning waits for pgrep, which is run
\* without a deadline and may never return; when it returns, the lines are
\* tested with processAlive.
ErPgrep ==
  /\ UNCHANGED fn
  /\ pc = "er_pgrep"
  /\ \/ /\ pc' = "hung"
        /\ UNCHANGED <<pid, kind>>
     \/ \E out \in PgrepOutputs(proc) :
          LET d == ErAdopt(out) IN
          kind' = d.kind /\ pid' = d.pid /\ pc' = d.pc
  /\ lastOp' = NoOp
  /\ UNCHANGED <<world, sigs, op, cfg, before, entry, stopFrom, st, err, wd>>

\* A pickReady that records the pid it is about to return.
ErPickRecords ==
  /\ UNCHANGED fn
  /\ pc = "er_pick"
  /\ \/ /\ err' = "list utun (after)" /\ st' = NoStatus /\ pc' = "er_ret"
        /\ pidfile' = pidfile
     \/ \E aerr \in SUBSET PresentUtuns :
          LET a == listUTUN(ifaces, aerr)
              c == pickAnyUTUNWithIPv4(a.set, a.noIPv4) IN
          IF c # {}
          THEN \E utun \in c :
                 /\ st' = Status(pid, utun, kind) /\ err' = "" /\ pc' = "er_ret"
                 /\ pidfile' = NumFile(pid)
          ELSE /\ pc' = "er_wait" /\ UNCHANGED <<st, err, pidfile>>
  /\ lastOp' = NoOp
  /\ UNCHANGED <<proc, started, ifaces, sigs, op, cfg, locals, wd>>

\* pickReady: any utun that has IPv4 now, else wait for one.
ErPick ==
  /\ UNCHANGED fn
  /\ pc = "er_pick"
  /\ \/ /\ err' = "list utun (after)" /\ st' = NoStatus /\ pc' = "er_ret"
     \/ \E aerr \in SUBSET PresentUtuns :
          LET a == listUTUN(ifaces, aerr)
              c == pickAnyUTUNWithIPv4(a.set, a.noIPv4) IN
          IF c # {}
          THEN \E utun \in c :
                 /\ st' = Status(pid, utun, kind) /\ err' = "" /\ pc' = "er_ret"
          ELSE /\ pc' = "er_wait" /\ UNCHANGED <<st, err>>
  /\ lastOp' = NoOp
  /\ UNCHANGED <<world, sigs, op, cfg, locals, wd>>

\* startSingBox: the kernel hands out the next pid, or the start fails, as
\* it always does under a context that is already cancelled.
ErStart ==
  /\ UNCHANGED fn
  /\ pc = "er_start"
  /\ \/ /\ err' = "sing-box start" /\ st' = NoStatus /\ pc' = "er_ret"
        /\ UNCHANGED <<proc, started, pid>>
     \/ /\ FreePids(proc) # {}
        /\ stopFrom # "ctx done"
        /\ LET p == Min(FreePids(proc)) IN
           /\ proc' = [proc EXCEPT ![p] = "alive"]
           /\ started' = started \cup {p}
           /\ pid' = p
        /\ pc' = "er_write"
        /\ UNCHANGED <<st, err>>
  /\ lastOp' = NoOp
  /\ UNCHANGED <<pidfile, ifaces, sigs, op, cfg, kind, before, entry, stopFrom, wd>>

\* A writePID that does not replace a record that is already there.
ErWriteKeepsExisting ==
  /\ UNCHANGED fn
  /\ pc = "er_write"
  /\ \/ /\ pidfile' = IF readPID(pidfile).ok THEN pidfile ELSE NumFile(pid)
        /\ pc' = "er_wait" /\ UNCHANGED stopFrom
     \/ /\ pidfile' \in {pidfile, JunkFile}
        /\ stopFrom' = "er_write" /\ pc' = "stop_term"
  /\ lastOp' = NoOp
  /\ UNCHANGED <<proc, started, ifaces, sigs, op, cfg, pid, kind, before, entry,
                 st, err, wd>>

\* writePID, and on its failure stopPID(pid).  A failed os.WriteFile leaves
\* the file as it was or truncated.
ErWrite ==
  /\ UNCHANGED fn
  /\ pc = "er_write"
  /\ \/ /\ pidfile' = NumFile(pid) /\ pc' = "er_wait" /\ UNCHANGED stopFrom
     \/ /\ pidfile' \in {pidfile, JunkFile}
        /\ stopFrom' = "er_write" /\ pc' = "stop_term"
  /\ lastOp' = NoOp
  /\ UNCHANGED <<proc, started, ifaces, sigs, op, cfg, pid, kind, before, entry,
                 st, err, wd>>

\* a poll of waitForUTUNReady returns an interface
ErWaitReady ==
  /\ UNCHANGED fn
  /\ pc = "er_wait"
  /\ \E aerr \in SUBSET PresentUtuns :
       LET utun == waitPoll(before, tunNameFromConfig(cfg.inbounds), ifaces, aerr) IN
       /\ utun # ""
       /\ st' = Status(pid, utun, kind) /\ err' = "" /\ pc' = "er_ret"
  /\ lastOp' = NoOp
  /\ UNCHANGED <<world, sigs, op, cfg, locals, wd>>

\* A timeout that stops whatever process EnsureRunning was waiting for.
ErWaitTimeoutStopsAny ==
  /\ UNCHANGED fn
  /\ pc = "er_wait"
  /\ \E aerr \in SUBSET PresentUtuns :
       waitPoll(before, tunNameFromConfig(cfg.inbounds), ifaces, aerr) = ""
  /\ stopFrom' = "er_wait" /\ pc' = "stop_term" /\ UNCHANGED <<st, err>>
  /\ lastOp' = NoOp
  /\ UNCHANGED <<world, sigs, op, cfg, pid, kind, before, entry, wd>>

\* the last poll found nothing and the deadline has passed; the process
\* EnsureRunning started is stopped and its record removed
ErWaitTimeout ==
  /\ UNCHANGED fn
  /\ pc = "er_wait"
  /\ \E aerr \in SUBSET PresentUtuns :
       waitPoll(before, tunNameFromConfig(cfg.inbounds), ifaces, aerr) = ""
  /\ IF kind = "started"
     THEN /\ stopFrom' = "er_wait" /\ pc' = "stop_term" /\ UNCHANGED <<st, err>>
     ELSE /\ err' = "no utun before timeout" /\ st' = NoStatus /\ pc' = "er_ret"
          /\ UNCHANGED stopFrom
  /\ lastOp' = NoOp
  /\ UNCHANGED <<world, sigs, op, cfg, pid, kind, before, entry, wd>>

\* ------------------------------------------------------------- callers
RunScriptOutcomes == {"ok", "failed", "timeout"}
SupervisorOps == {"ensure", "stop", "recover", "up", "down", "stopowned", "restart"}

\* The entry point returns: its frame is gone.
GoIdle ==
  /\ op' = "none" /\ pc' = "idle" /\ cfg' = NoCfg /\ sigs' = {}
  /\ pid' = 0 /\ kind' = "" /\ before' = NoSnapshot /\ entry' = NoEntry
  /\ stopFrom' = ""
  /\ st' = NoStatus /\ err' = ""

CallEnsure ==
  /\ UNCHANGED fn
  /\ pc = "idle"
  /\ op' = "ensure" /\ pc' = "er_begin"
  /\ cfg' \in Cfgs
  /\ UNCHANGED <<world, sigs, locals, st, err, lastOp, wd>>

CallStop ==
  /\ UNCHANGED fn
  /\ pc = "idle"
  /\ op' = "stop" /\ pc' = "sio"
  /\ cfg' \in Cfgs
  /\ UNCHANGED <<world, sigs, locals, st, err, lastOp, wd>>

CallRecover ==
  /\ UNCHANGED fn
  /\ pc = "idle"
  /\ op' = "recover" /\ pc' = "rec_begin"
  /\ cfg' \in Cfgs
  /\ recErr' = FALSE
  /\ UNCHANGED <<world, sigs, locals, st, err, lastOp, wcfg, consecutiveFails, recoveries, h, report, probes>>

\* cmdUp up to EnsureRunning: the setup script, the WAN/LAN names, and
\* singbox_auto_start; without it utun stays "" and cmdUp returns an error.
CmdUp ==
  /\ UNCHANGED fn
  /\ pc = "idle"
  /\ \E setup \in RunScriptOutcomes, ifsKnown \in BOOLEAN, autoStart \in BOOLEAN :
       IF setup = "ok" /\ ifsKnown /\ autoStart
       THEN op' = "up" /\ pc' = "er_begin" /\ cfg' \in Cfgs
       ELSE op' = "none" /\ pc' = "idle" /\ cfg' = NoCfg
  /\ lastOp' = NoOp
  /\ UNCHANGED <<world, sigs, locals, st, err, wd>>

\* A cmdDown that restores the router state before it stops anything.
CmdDownScriptFirst ==
  /\ UNCHANGED fn
  /\ pc = "idle"
  /\ op' = "down" /\ pc' = "down_script"
  /\ cfg' \in Cfgs
  /\ lastOp' = NoOp
  /\ UNCHANGED <<world, sigs, locals, st, err, wd>>

\* cmdDown up to StopIfOwned.
CmdDown ==
  /\ UNCHANGED fn
  /\ pc = "idle"
  /\ op' = "down" /\ pc' = "sio"
  /\ cfg' \in Cfgs
  /\ lastOp' = NoOp
  /\ UNCHANGED <<world, sigs, locals, st, err, wd>>

\* A doRecovery that goes to EnsureRunning without stopping anything.
RecBeginSkipsStop ==
  /\ UNCHANGED fn
  /\ pc = "rec_begin"
  /\ pc' = "er_begin"
  /\ lastOp' = NoOp
  /\ UNCHANGED <<world, sigs, op, cfg, locals, st, err, wd>>

\* doRecovery: only restart if we own it.
RecBegin ==
  /\ UNCHANGED fn
  /\ pc = "rec_begin"
  /\ pc' = IF Inspect(pidfile, proc).OwnedByUs THEN "sio" ELSE "er_begin"
  /\ lastOp' = NoOp
  /\ UNCHANGED <<world, sigs, op, cfg, locals, st, err, wd>>

\* A doRecovery that goes on to EnsureRunning after a failed stop.
SioReturnGoesOn ==
  /\ UNCHANGED fn
  /\ pc = "sio_ret"
  /\ CASE op = "stop" ->
            /\ GoIdle
            /\ lastOp' = [op |-> "stop", ok |-> err = "", signalled |-> sigs # {},
                         recoveries |-> 0]
            /\ UNCHANGED wd
       [] op = "down" ->
            /\ IF err # ""
               THEN /\ GoIdle
                    /\ lastOp' = [op |-> "down", ok |-> FALSE,
                                  signalled |-> sigs # {}, recoveries |-> 0]
               ELSE /\ pc' = "down_script"
                    /\ UNCHANGED <<op, cfg, sigs, locals, st, err>>
                    /\ lastOp' = NoOp
            /\ UNCHANGED wd
       [] op \in {"recover", "run"} ->
            /\ recErr' = recErr /\ pc' = "er_begin"
            /\ lastOp' = NoOp
            /\ UNCHANGED <<op, cfg, sigs, locals, st, err, wcfg, consecutiveFails, recoveries, h, report, probes>>
  /\ UNCHANGED world

\* StopIfOwned has returned err to its caller.
SioReturn ==
  /\ UNCHANGED fn
  /\ pc = "sio_ret"
  /\ CASE op = "stop" ->
            /\ GoIdle
            /\ lastOp' = [op |-> "stop", ok |-> err = "", signalled |-> sigs # {},
                         recoveries |-> 0]
            /\ UNCHANGED wd
       [] op = "down" ->
            /\ IF err # ""
               THEN /\ GoIdle
                    /\ lastOp' = [op |-> "down", ok |-> FALSE,
                                  signalled |-> sigs # {}, recoveries |-> 0]
               ELSE /\ pc' = "down_script"
                    /\ UNCHANGED <<op, cfg, sigs, locals, st, err>>
                    /\ lastOp' = NoOp
            /\ UNCHANGED wd
       [] op \in {"recover", "run"} ->
            /\ IF err # ""
               THEN recErr' = TRUE /\ pc' = "rec_ret"
               ELSE recErr' = recErr /\ pc' = "er_begin"
            /\ lastOp' = NoOp
            /\ UNCHANGED <<op, cfg, sigs, locals, st, err, wcfg, consecutiveFails, recoveries, h, report, probes>>
  /\ UNCHANGED world

\* cmdDown: restore router state, and return the script's error or nil
DownScript ==
  /\ UNCHANGED fn
  /\ pc = "down_script"
  /\ \E res \in RunScriptOutcomes :
       /\ GoIdle
       /\ lastOp' = [op |-> "down", ok |-> res = "ok", signalled |-> sigs # {},
                     recoveries |-> 0]
  /\ UNCHANGED <<world, wd>>

\* A caller that applies the policy whatever EnsureRunning returned.
ErReturnUnchecked ==
  /\ UNCHANGED fn
  /\ pc = "er_ret"
  /\ CASE op \in {"ensure", "restart"} ->
            /\ GoIdle /\ UNCHANGED wd
       [] op \in {"up", "recover", "run"} ->
            /\ pc' = "pf_apply" /\ pid' = 0 /\ kind' = "" /\ before' = NoSnapshot
            /\ entry' = NoEntry
            /\ UNCHANGED <<op, cfg, sigs, stopFrom, st, err, wd>>
  /\ lastOp' = NoOp
  /\ UNCHANGED world

\* EnsureRunning has returned (st, err) to its caller.
ErReturn ==
  /\ UNCHANGED fn
  /\ pc = "er_ret"
  /\ CASE op \in {"ensure", "restart"} ->
            /\ GoIdle /\ UNCHANGED wd
       [] op = "up" ->
            /\ IF err # "" \/ st.NewUTUN = "" THEN GoIdle
               ELSE /\ pc' = "pf_apply" /\ pid' = 0 /\ kind' = "" /\ before' = NoSnapshot
                    /\ entry' = NoEntry
                    /\ UNCHANGED <<op, cfg, sigs, stopFrom, st, err>>
            /\ UNCHANGED wd
       [] op \in {"recover", "run"} ->
            /\ IF err # "" \/ ~st.Running \/ st.NewUTUN = ""
               THEN recErr' = TRUE /\ pc' = "rec_ret"
               ELSE recErr' = recErr /\ pc' = "pf_apply"
            /\ pid' = 0 /\ kind' = "" /\ before' = NoSnapshot /\ entry' = NoEntry
            /\ UNCHANGED <<op, cfg, sigs, stopFrom, st, err, wcfg, consecutiveFails, recoveries, h, report, probes>>
  /\ lastOp' = NoOp
  /\ UNCHANGED world

\* control.RunScript(pf_apply, "utun=" + st.NewUTUN, ...)
PfApply ==
  /\ UNCHANGED fn
  /\ pc = "pf_apply"
  /\ \E res \in RunScriptOutcomes :
       IF op = "up" THEN GoIdle /\ UNCHANGED wd
       ELSE /\ recErr' = (res # "ok") /\ pc' = "rec_ret"
            /\ UNCHANGED <<op, cfg, sigs, locals, st, err, wcfg, consecutiveFails, recoveries, h, report, probes>>
  /\ lastOp' = NoOp
  /\ UNCHANGED world

\* A return of doRecovery after which the loop goes straight on to the next
\* tick.
RecReturnNoCooldown ==
  /\ UNCHANGED fn
  /\ pc = "rec_ret"
  /\ IF op = "recover" THEN GoIdle
     ELSE /\ pc' = "w_tick" /\ st' = NoStatus /\ err' = "" /\ sigs' = {}
          /\ UNCHANGED <<op, cfg, locals>>
  /\ lastOp' = NoOp
  /\ UNCHANGED <<world, wd>>

\* doRecovery has returned recErr.
RecReturn ==
  /\ UNCHANGED fn
  /\ pc = "rec_ret"
  /\ IF op = "recover" THEN GoIdle
     ELSE /\ pc' = "w_cooldown" /\ st' = NoStatus /\ err' = "" /\ sigs' = {}
          /\ UNCHANGED <<op, cfg, locals>>
  /\ lastOp' = NoOp
  /\ UNCHANGED <<world, wd>>

\* ------------------------------------------------------------- cmdRun
\* A cmdRun that takes up the recoveries count of the daemon before it.
CmdRunResumes ==
  /\ UNCHANGED fn
  /\ pc = "idle"
  /\ op' = "run" /\ pc' = "w_probe"
  /\ cfg' \in Cfgs /\ wcfg' \in WatchdogCfgs
  /\ consecutiveFails' = 0 /\ recoveries' = lastOp.recoveries /\ recErr' = FALSE
  /\ h' = "none" /\ report' = "none" /\ probes' = 0
  /\ UNCHANGED <<world, sigs, locals, st, err, lastOp>>

\* cmdRun up to the loop: the ticker, consecutiveFails := 0, recoveries := 0.
CmdRun ==
  /\ UNCHANGED fn
  /\ pc = "idle"
  /\ op' = "run" /\ pc' = "w_probe"
  /\ cfg' \in Cfgs /\ wcfg' \in WatchdogCfgs
  /\ consecutiveFails' = 0 /\ recoveries' = 0 /\ recErr' = FALSE
  /\ h' = "none" /\ report' = "none" /\ probes' = 0
  /\ UNCHANGED <<world, sigs, locals, st, err, lastOp>>

\* A counter that a failed probe advances by two.
AfterProbeCountsTwice(ok, fails) == IF ok THEN 0 ELSE fails + 2

\* The failure counter after a probe.
AfterProbe(ok, fails) == IF ok THEN 0 ELSE fails + 1

\* A recovery only on the probe that reaches the threshold.
RecoveryDueAtCrossing(fails, rec, c) ==
  fails = c.FailureThreshold /\ ~(rec >= c.MaxRecoveries)

\* if consecutiveFails >= FailureThreshold { if recoveries >= MaxRecoveries ...
RecoveryDue(fails, rec, c) ==
  fails >= c.FailureThreshold /\ ~(rec >= c.MaxRecoveries)

\* A loop that returns from cmdRun when it finds the budget used up.
WProbeReturnsWhenExhausted ==
  /\ UNCHANGED fn
  /\ pc = "w_probe"
  /\ \E ok \in BOOLEAN :
       /\ ~ok => consecutiveFails < MaxFails
       /\ h' = IF ok THEN "ok" ELSE "fail"
       /\ consecutiveFails' = AfterProbe(ok, consecutiveFails)
       /\ IF RecoveryDue(consecutiveFails', recoveries, wcfg)
          THEN /\ recoveries' = recoveries + 1
               /\ \/ pc' = "rec_begin" /\ probes' = probes + 2
                  \/ pc' = "hung" /\ probes' = probes + 1
               /\ UNCHANGED <<op, cfg>>
          ELSE /\ recoveries' = recoveries /\ probes' = probes + 1
               /\ IF consecutiveFails' >= wcfg.FailureThreshold
                  THEN op' = "none" /\ pc' = "idle" /\ cfg' = NoCfg
                  ELSE pc' = "w_tick" /\ UNCHANGED <<op, cfg>>
  /\ recErr' = FALSE /\ report' = "none"
  /\ lastOp' = NoOp
  /\ UNCHANGED <<world, sigs, locals, st, err, wcfg>>

\* One iteration of the loop up to doRecovery or the wait for the next tick:
\* the probe, the counter, the budget, and before doRecovery the snapshot.
\* status.Collect only reads: it runs pgrep and pfctl under the context it
\* is given, context.Background(), so without a deadline, and then makes a
\* probe of its own.
WProbe ==
  /\ UNCHANGED fn
  /\ pc = "w_probe"
  /\ \E ok \in BOOLEAN :
       /\ ~ok => consecutiveFails < MaxFails
       /\ h' = IF ok THEN "ok" ELSE "fail"
       /\ consecutiveFails' = AfterProbe(ok, consecutiveFails)
       /\ IF RecoveryDue(consecutiveFails', recoveries, wcfg)
          THEN /\ recoveries' = recoveries + 1
               /\ \/ pc' = "rec_begin" /\ probes' = probes + 2
                  \/ pc' = "hung" /\ probes' = probes + 1
          ELSE recoveries' = recoveries /\ pc' = "w_tick" /\ probes' = probes + 1
  /\ recErr' = FALSE /\ report' = "none"
  /\ lastOp' = NoOp
  /\ UNCHANGED <<world, sigs, op, cfg, locals, st, err, wcfg>>

\* A tick that is also taken while the cooldown of a recovery is running.
WTickDuringCooldown ==
  /\ UNCHANGED fn
  /\ pc \in {"w_tick", "w_cooldown"}
  /\ pc' = "w_probe"
  /\ h' = "none" /\ report' = "none" /\ probes' = 0
  /\ lastOp' = NoOp
  /\ UNCHANGED <<world, sigs, op, cfg, locals, st, err, wcfg, consecutiveFails,
                 recoveries, recErr>>

\* <-t.C
WTick ==
  /\ UNCHANGED fn
  /\ pc = "w_tick"
  /\ pc' = "w_probe"
  /\ h' = "none" /\ report' = "none" /\ probes' = 0
  /\ lastOp' = NoOp
  /\ UNCHANGED <<world, sigs, op, cfg, locals, st, err, wcfg, consecutiveFails,
                 recoveries, recErr>>

\* A post-recovery probe that clears the counter whatever its result.
AfterPostProbeAlwaysResets(ok, fails) == 0

\* if h2.OK { ...; consecutiveFails = 0 }
AfterPostProbe(ok, fails) == IF ok THEN 0 ELSE fails

\* A log line that reports success whenever the probe is ok.
PostProbeReportIgnoresError(ok, rerr) ==
  IF ok THEN "succeeded" ELSE "not restored"

\* The log line after the post-recovery probe.
PostProbeReport(ok, rerr) ==
  IF ok THEN (IF rerr THEN "ambiguous" ELSE "succeeded") ELSE "not restored"

\* A post-recovery probe that gives the attempt back when it fails.
WPostProbeRefunds ==
  /\ UNCHANGED fn
  /\ pc = "w_cooldown"
  /\ \E ok \in BOOLEAN :
       /\ h' = IF ok THEN "ok" ELSE "fail"
       /\ consecutiveFails' = AfterPostProbe(ok, consecutiveFails)
       /\ report' = PostProbeReport(ok, recErr)
       /\ recoveries' = IF ok THEN recoveries ELSE recoveries - 1
  /\ probes' = probes + 1
  /\ pc' = "w_tick" /\ recErr' = FALSE
  /\ lastOp' = NoOp
  /\ UNCHANGED <<world, sigs, op, cfg, locals, st, err, wcfg>>

\* time.Sleep(RecoverCooldown), then the probe after the recovery
WPostProbe ==
  /\ UNCHANGED fn
  /\ pc = "w_cooldown"
  /\ \E ok \in BOOLEAN :
       /\ h' = IF ok THEN "ok" ELSE "fail"
       /\ consecutiveFails' = AfterPostProbe(ok, consecutiveFails)
       /\ report' = PostProbeReport(ok, recErr)
  /\ probes' = probes + 1
  /\ pc' = "w_tick" /\ recErr' = FALSE
  /\ lastOp' = NoOp
  /\ UNCHANGED <<world, sigs, op, cfg, locals, st, err, wcfg, recoveries>>

\* The vpnrd process is ended from outside (a signal, a reboot) while it
\* waits: its memory is gone, the record file and the processes stay.
DaemonExit ==
  /\ UNCHANGED fn
  /\ op \in {"up", "down", "run"}
  /\ EnvMayAct \/ pc = "hung"
  /\ GoIdle
  /\ wcfg' = NoWatchdogCfg
  /\ consecutiveFails' = 0 /\ recoveries' = 0 /\ recErr' = FALSE
  /\ h' = "none" /\ report' = "none" /\ probes' = 0
  /\ lastOp' = IF op = "run"
               THEN [op |-> "run", ok |-> FALSE, signalled |-> FALSE,
                     recoveries |-> recoveries]
               ELSE NoOp
  /\ UNCHANGED world

\* ------------------------------------------------ StopOwned, RestartOwned
\* proc.Signal: a signal to pid alone, not to its process group.
SignalPid(p, s) ==
  [pid |-> p, sig |-> IF s = "TERM" THEN "TERM pid only" ELSE "KILL pid only"]

CallStopOwned ==
  /\ UNCHANGED fn
  /\ pc = "idle"
  /\ op' = "stopowned" /\ pc' = "so"
  /\ cfg' \in Cfgs
  /\ UNCHANGED <<world, sigs, locals, st, err, lastOp, wd>>

CallRestartOwned ==
  /\ UNCHANGED fn
  /\ pc = "idle"
  /\ op' = "restart" /\ pc' = "so"
  /\ cfg' \in Cfgs
  /\ UNCHANGED <<world, sigs, locals, st, err, lastOp, wd>>

\* StopOwned up to the select: no record is an error, the record of a dead
\* process is removed; else SIGTERM, and the first poll of the loop finds the
\* process as the test just before did.
StopOwned ==
  /\ UNCHANGED fn
  /\ pc = "so"
  /\ LET r == readPID(pidfile) IN
     IF ~r.ok
     THEN /\ err' = "pidfile not found" /\ pc' = "so_ret"
          /\ UNCHANGED <<pidfile, pid, sigs>>
     ELSE IF ~processAlive(proc, r.pid)
     THEN /\ pidfile' = NoFile /\ err' = "" /\ pc' = "so_ret"
          /\ UNCHANGED <<pid, sigs>>
     ELSE /\ pid' = r.pid /\ sigs' = sigs \cup {SignalPid(r.pid, "TERM")}
          /\ pc' = "so_wait"
          /\ UNCHANGED <<pidfile, err>>
  /\ lastOp' = NoOp
  /\ UNCHANGED <<proc, started, ifaces, op, cfg, kind, before, entry, stopFrom, st, wd>>

\* case <-tick.C, and the poll finds the process gone
StopOwnedGone ==
  /\ UNCHANGED fn
  /\ pc = "so_wait"
  /\ ~processAlive(proc, pid)
  /\ pidfile' = NoFile /\ err' = "" /\ pc' = "so_ret"
  /\ lastOp' = NoOp
  /\ UNCHANGED <<proc, started, ifaces, sigs, op, cfg, locals, st, wd>>

\* case <-ctx.Done(): return ctx.Err()
StopOwnedCancelled ==
  /\ UNCHANGED fn
  /\ pc = "so_wait"
  /\ err' = "context canceled" /\ pc' = "so_ret"
  /\ lastOp' = NoOp
  /\ UNCHANGED <<world, sigs, op, cfg, locals, st, wd>>

\* case <-deadline.C: proc.Signal(SIGKILL), time.Sleep(200ms)
StopOwnedKill ==
  /\ UNCHANGED fn
  /\ pc = "so_wait"
  /\ sigs' = sigs \cup {SignalPid(pid, "KILL")}
  /\ pc' = "so_killed"
  /\ lastOp' = NoOp
  /\ UNCHANGED <<world, op, cfg, locals, st, err, wd>>

\* after the 200 ms the record is removed and the error returned, whether or
\* not the process is gone
StopOwnedKilled ==
  /\ UNCHANGED fn
  /\ pc = "so_killed"
  /\ pidfile' = NoFile
  /\ err' = "sing-box did not stop in time; killed" /\ pc' = "so_ret"
  /\ lastOp' = NoOp
  /\ UNCHANGED <<proc, started, ifaces, sigs, op, cfg, locals, st, wd>>

\* StopOwned has returned err: to its caller, or to RestartOwned, which
\* ignores it and calls EnsureRunning with the same context.
StopOwnedReturn ==
  /\ UNCHANGED fn
  /\ pc = "so_ret"
  /\ IF op = "stopowned"
     THEN /\ GoIdle
          /\ lastOp' = [op |-> "stopowned", ok |-> err = "",
                        signalled |-> sigs # {}, recoveries |-> 0]
     ELSE /\ pc' = "er_begin" /\ err' = "" /\ pid' = 0
          /\ stopFrom' = IF err = "context canceled" THEN "ctx done" ELSE ""
          /\ lastOp' = NoOp
          /\ UNCHANGED <<op, cfg, sigs, kind, before, entry, st>>
  /\ UNCHANGED <<world, wd>>

OwnedApi ==
  \/ StopOwned \/ StopOwnedGone \/ StopOwnedCancelled \/ StopOwnedKill
  \/ StopOwnedKilled \/ StopOwnedReturn

Env == ProcDie \/ ExtSpawn \/ IfChange
Supervisor ==
  \/ StopTerm \/ StopPollDead \/ StopPollAlive \/ StopKill \/ StopCheck
  \/ StopIfOwned
  \/ ErBegin \/ ErPgrep \/ ErPick \/ ErStart \/ ErWrite \/ ErWaitReady
  \/ ErWaitTimeout
  \/ RecBegin \/ SioReturn \/ ErReturn \/ PfApply \/ RecReturn
Next ==
  \/ Env \/ Supervisor \/ OwnedApi
  \/ CallEnsure \/ CallStop \/ CallRecover \/ CallStopOwned \/ CallRestartOwned

\* EnsureRunning, StopIfOwned, StopOwned, RestartOwned and doRecovery called
\* in any order.
Spec == Init /\ [][Next]_vars

NextCli ==
  \/ Env \/ Supervisor
  \/ CmdUp \/ CmdDown \/ DownScript
  \/ CmdRun \/ WTick \/ WProbe \/ WPostProbe
  \/ DaemonExit

\* vpnrd up, vpnrd down, vpnrd run.
InitCli == Init /\ pidfile = NoFile
SpecCli == InitCli /\ [][NextCli]_vars

\* From the outcome of a tick to the next probe cmdRun only logs, sleeps
\* RecoverCooldown, makes the post-recovery probe under its deadline
\* (context.WithTimeout in healthcheck.Check) and receives from the ticker,
\* whose interval is positive: each of these steps is taken when it can be.
\* Nothing is assumed of the calls inside a recovery, of pgrep and pfctl, or
\* of the scripts.
TickEnd == (op = "run" /\ RecReturn) \/ WPostProbe \/ WTick
SpecCliFair == SpecCli /\ WF_vars(TickEnd)

\* ------------------------------------------------- two invocations at once
\* Two vpnrd invocations (say vpnrd up or vpnrd down, and the watchdog inside
\* doRecovery) run supervisor operations on the same record file and process
\* table; the scheduler interleaves their system calls.  Both read the same
\* configuration.  What the interfaces do is an input here: pickReady and
\* waitForUTUNReady can end either way at any time.
MaxCalls == 3                  \* operations the two invocations begin in all

InitConc ==
  /\ proc = [p \in Pids |-> "free"]
  /\ started = {}
  /\ pidfile = NoFile
  /\ ifaces = [u \in Utuns |-> "absent"]
  /\ sigs = {}
  /\ op = "none" /\ pc = "idle"
  \* the interface names of the sing-box config play no part here
  /\ cfg \in {c \in Cfgs : tunNameFromConfig(c.inbounds) = ""}
  /\ pid = 0 /\ kind = "" /\ before = NoSnapshot /\ entry = NoEntry /\ stopFrom = ""
  /\ st = NoStatus /\ err = ""
  /\ lastOp = NoOp
  /\ wcfg = NoWatchdogCfg
  /\ consecutiveFails = 0 /\ recoveries = 0 /\ recErr = FALSE
  /\ h = "none" /\ report = "none" /\ probes = 0
  /\ hcIn = NoProbe /\ hcRes = NoResult
  /\ scIn = NoCommand /\ scRes = NoScriptResult
  /\ mIn = NoInvocation /\ mSt = NotStarted
  /\ inv = [d \in Daemons |-> NoFrame] /\ calls = 0

Frame(d) == inv[d]

ConcFrame ==
  UNCHANGED <<ifaces, sigs, op, pc, cfg, locals, st, err, lastOp, wd, hc, sc, mn>>

\* EnsureRunning, StopIfOwned or doRecovery is called.
ConcCall(d) ==
  /\ Frame(d).pc = "idle" /\ calls < MaxCalls
  /\ \E o \in {"ensure", "stop", "recover"} :
       inv' = [inv EXCEPT ![d] =
                 [NoFrame EXCEPT !.op = o,
                                 !.pc = CASE o = "ensure" -> "er_begin"
                                          [] o = "stop" -> "sio"
                                          [] o = "recover" -> "rec_begin"]]
  /\ calls' = calls + 1
  /\ UNCHANGED world /\ ConcFrame

\* doRecovery: only restart if we own it.
ConcRecBegin(d) ==
  /\ Frame(d).pc = "rec_begin"
  /\ inv' = [inv EXCEPT ![d].pc =
               IF Inspect(pidfile, proc).OwnedByUs THEN "sio" ELSE "er_begin"]
  /\ UNCHANGED <<world, calls>> /\ ConcFrame

\* StopIfOwned: readPID
ConcStopIfOwned(d) ==
  /\ Frame(d).pc = "sio"
  /\ LET r == readPID(pidfile) IN
     inv' = IF ~r.ok THEN [inv EXCEPT ![d].pc = "sio_ret", ![d].err = ""]
            ELSE [inv EXCEPT ![d].pc = "sio_alive", ![d].pid = r.pid]
  /\ UNCHANGED <<world, calls>> /\ ConcFrame

\* StopIfOwned: processAlive(pid) on the pid that was read
ConcSioAlive(d) ==
  /\ Frame(d).pc = "sio_alive"
  /\ inv' = IF ~processAlive(proc, Frame(d).pid)
            THEN [inv EXCEPT ![d].pc = "sio_rm"]
            ELSE [inv EXCEPT ![d].pc = "stop_term", ![d].stopFrom = "sio"]
  /\ UNCHANGED <<world, calls>> /\ ConcFrame

\* os.Remove(cfg.SingBoxPidFile) in StopIfOwned and in the timeout branch of
\* EnsureRunning: the record file that is there now is removed, and a file
\* an invocation holds open for writing is no longer the one at the path.
ConcRemove(d) ==
  /\ Frame(d).pc \in {"sio_rm", "er_rm"}
  /\ pidfile' = NoFile
  /\ inv' = [e \in Daemons |->
              IF e # d THEN [inv[e] EXCEPT !.linked = FALSE]
              ELSE IF Frame(d).pc = "sio_rm"
              THEN [inv[d] EXCEPT !.pc = "sio_ret", !.err = ""]
              ELSE [inv[d] EXCEPT !.pc = "er_ret",
                      !.err = "sing-box started but no utun appeared before timeout"]]
  /\ UNCHANGED <<proc, started, calls>> /\ ConcFrame

\* stopPID returns to its caller: StopIfOwned returns its error or goes on
\* to os.Remove, EnsureRunning ignores the error and, after a timeout, goes
\* on to os.Remove.
ConcStopReturn(d, failed) ==
  CASE Frame(d).stopFrom = "sio" ->
         inv' = IF failed
                THEN [inv EXCEPT ![d].pc = "sio_ret", ![d].stopFrom = "",
                                 ![d].err = "failed to stop sing-box"]
                ELSE [inv EXCEPT ![d].pc = "sio_rm", ![d].stopFrom = ""]
    [] Frame(d).stopFrom = "er_write" ->
         inv' = [inv EXCEPT ![d].pc = "er_ret", ![d].stopFrom = "",
                            ![d].err = "pidfile write"]
    [] Frame(d).stopFrom = "er_wait" ->
         inv' = [inv EXCEPT ![d].pc = "er_rm", ![d].stopFrom = ""]

\* term(), p.Signal(SIGTERM)
ConcStopTerm(d) ==
  /\ Frame(d).pc = "stop_term"
  /\ inv' = [inv EXCEPT ![d].pc = "stop_poll",
                        ![d].sigs = @ \cup {Signal(Frame(d).pid, "TERM")}]
  /\ UNCHANGED <<world, calls>> /\ ConcFrame

\* the first poll of the grace period: the process is gone, or
\* time.Sleep(150ms)
ConcStopPoll(d) ==
  /\ Frame(d).pc = "stop_poll"
  /\ IF ~processAlive(proc, Frame(d).pid)
     THEN ConcStopReturn(d, FALSE)
     ELSE inv' = [inv EXCEPT ![d].pc = "stop_sleep"]
  /\ UNCHANGED <<world, calls>> /\ ConcFrame

\* after a sleep: a poll finds the process gone, or the deadline has passed
\* and kill() is sent whatever has happened to the process since
ConcStopSleep(d) ==
  /\ Frame(d).pc = "stop_sleep"
  /\ \/ /\ ~processAlive(proc, Frame(d).pid)
        /\ ConcStopReturn(d, FALSE)
     \/ inv' = [inv EXCEPT ![d].pc = "stop_check",
                           ![d].sigs = @ \cup {Signal(Frame(d).pid, "KILL")}]
  /\ UNCHANGED <<world, calls>> /\ ConcFrame

\* 200 ms after the kill
ConcStopCheck(d) ==
  /\ Frame(d).pc = "stop_check"
  /\ ConcStopReturn(d, processAlive(proc, Frame(d).pid))
  /\ UNCHANGED <<world, calls>> /\ ConcFrame

\* StopIfOwned has returned: to its caller, or to doRecovery, which goes on
\* to EnsureRunning when there was no error.
ConcSioReturn(d) ==
  /\ Frame(d).pc = "sio_ret"
  /\ inv' = IF Frame(d).op = "recover" /\ Frame(d).err = ""
            THEN [inv EXCEPT ![d].pc = "er_begin", ![d].pid = 0]
            ELSE [inv EXCEPT ![d] = NoFrame]
  /\ UNCHANGED <<world, calls>> /\ ConcFrame

\* Without a live recorded process: adoption when it is enabled, else the
\* start.
ConcNotOwned(d) ==
  IF cfg.adopt
  THEN [inv EXCEPT ![d].kind = "", ![d].pid = 0, ![d].pc = "er_pgrep"]
  ELSE [inv EXCEPT ![d].kind = "started", ![d].pid = 0, ![d].pc = "er_start"]

\* EnsureRunning: the snapshot, then readPID
ConcErBegin(d) ==
  /\ Frame(d).pc = "er_begin"
  /\ \/ inv' = [inv EXCEPT ![d].pc = "er_ret", ![d].err = "list utun (before)"]
     \/ LET r == readPID(pidfile) IN
        inv' = IF r.ok THEN [inv EXCEPT ![d].pid = r.pid, ![d].pc = "er_alive"]
               ELSE ConcNotOwned(d)
  /\ UNCHANGED <<world, calls>> /\ ConcFrame

\* EnsureRunning: processAlive(pid) on the pid that was read
ConcErAlive(d) ==
  /\ Frame(d).pc = "er_alive"
  /\ inv' = IF processAlive(proc, Frame(d).pid)
            THEN [inv EXCEPT ![d].kind = "owned", ![d].pc = "er_pick"]
            ELSE ConcNotOwned(d)
  /\ UNCHANGED <<world, calls>> /\ ConcFrame

\* findExternalSingBoxPID: pgrep never returns, fails, or lists the
\* processes that are alive while it runs.
ConcErPgrep(d) ==
  /\ Frame(d).pc = "er_pgrep"
  /\ \/ inv' = [inv EXCEPT ![d].pc = "hung"]
     \/ \E out \in PgrepOutputs(proc) :
          inv' = IF out.err
                 THEN [inv EXCEPT ![d].kind = "started", ![d].pc = "er_start"]
                 ELSE [inv EXCEPT ![d].lines = out.lines, ![d].pc = "er_adopt"]
  /\ UNCHANGED <<world, calls>> /\ ConcFrame

\* findExternalSingBoxPID, after pgrep has ended: processAlive on the pid of
\* the next line; an alive pid is returned, a dead one is passed over, and
\* after the last line nothing is returned and the start follows.
ConcErAdopt(d) ==
  /\ Frame(d).pc = "er_adopt"
  /\ LET ls == Frame(d).lines IN
     inv' = IF ls = <<>>
            THEN [inv EXCEPT ![d].kind = "started", ![d].pid = 0,
                             ![d].pc = "er_start"]
            ELSE IF processAlive(proc, Head(ls))
            THEN [inv EXCEPT ![d].pid = Head(ls), ![d].lines = <<>>,
                             ![d].pc = "er_found"]
            ELSE [inv EXCEPT ![d].lines = Tail(ls)]
  /\ UNCHANGED <<world, calls>> /\ ConcFrame

\* EnsureRunning: ok && pid > 0 && processAlive(pid) on the pid that
\* findExternalSingBoxPID returned: it is adopted, else the start follows.
ConcErFound(d) ==
  /\ Frame(d).pc = "er_found"
  /\ inv' = IF Frame(d).pid > 0 /\ processAlive(proc, Frame(d).pid)
            THEN [inv EXCEPT ![d].kind = "adopted", ![d].pc = "er_pick"]
            ELSE [inv EXCEPT ![d].kind = "started", ![d].pid = 0,
                             ![d].pc = "er_start"]
  /\ UNCHANGED <<world, calls>> /\ ConcFrame

\* pickReady on the owned and the adopted path: the enumeration fails, an
\* interface is ready now, or waitForUTUNReady begins.
ConcErPick(d) ==
  /\ Frame(d).pc = "er_pick"
  /\ \/ inv' = [inv EXCEPT ![d].pc = "er_ret", ![d].err = "list utun (after)"]
     \/ \E ready \in BOOLEAN :
          inv' = [inv EXCEPT ![d].pc = IF ready THEN "er_ret" ELSE "er_wait",
                             ![d].err = ""]
  /\ UNCHANGED <<world, calls>> /\ ConcFrame

\* startSingBox
ConcErStart(d) ==
  /\ Frame(d).pc = "er_start"
  /\ \/ /\ inv' = [inv EXCEPT ![d].pc = "er_ret", ![d].err = "sing-box start"]
        /\ UNCHANGED <<proc, started>>
     \/ /\ FreePids(proc) # {}
        /\ LET p == Min(FreePids(proc)) IN
           /\ proc' = [proc EXCEPT ![p] = "alive"]
           /\ started' = started \cup {p}
           /\ inv' = [inv EXCEPT ![d].pc = "er_write", ![d].pid = p]
  /\ UNCHANGED <<pidfile, calls>> /\ ConcFrame

\* writePID, os.WriteFile: the file is opened with O_CREATE and O_TRUNC, so
\* it is there and empty, or the open fails and stopPID(pid) follows.
ConcErWrite(d) ==
  /\ Frame(d).pc = "er_write"
  /\ \/ /\ pidfile' = JunkFile
        /\ inv' = [inv EXCEPT ![d].pc = "er_write2", ![d].linked = TRUE]
     \/ /\ pidfile' = pidfile
        /\ inv' = [inv EXCEPT ![d].pc = "stop_term", ![d].stopFrom = "er_write"]
  /\ UNCHANGED <<proc, started, calls>> /\ ConcFrame

\* writePID, os.WriteFile: the pid is written into the opened file, which
\* is the record only while no os.Remove has unlinked it since the open; or
\* the write fails and stopPID(pid) follows.
ConcErWrite2(d) ==
  /\ Frame(d).pc = "er_write2"
  /\ \/ /\ pidfile' = IF Frame(d).linked THEN NumFile(Frame(d).pid) ELSE pidfile
        /\ inv' = [inv EXCEPT ![d].pc = "er_wait", ![d].linked = FALSE]
     \/ /\ pidfile' = pidfile
        /\ inv' = [inv EXCEPT ![d].pc = "stop_term", ![d].stopFrom = "er_write",
                              ![d].linked = FALSE]
  /\ UNCHANGED <<proc, started, calls>> /\ ConcFrame

\* waitForUTUNReady returns an interface, or the timeout: on the start path
\* stopPID(pid), on the other paths the error return
ConcErWait(d) ==
  /\ Frame(d).pc = "er_wait"
  /\ \E ready \in BOOLEAN :
       inv' = IF ready THEN [inv EXCEPT ![d].pc = "er_ret", ![d].err = ""]
              ELSE IF Frame(d).kind = "started"
              THEN [inv EXCEPT ![d].pc = "stop_term", ![d].stopFrom = "er_wait"]
              ELSE [inv EXCEPT ![d].pc = "er_ret",
                               ![d].err = "no utun before timeout"]
  /\ UNCHANGED <<world, calls>> /\ ConcFrame

\* EnsureRunning has returned; the caller, doRecovery with its pf_apply
\* included, returns.
ConcErReturn(d) ==
  /\ Frame(d).pc = "er_ret"
  /\ inv' = [inv EXCEPT ![d] = NoFrame]
  /\ UNCHANGED <<world, calls>> /\ ConcFrame

\* A process dies or an external sing-box appears, at any time.
ConcEnv ==
  /\ \/ \E p \in Pids : proc[p] = "alive" /\ proc' = [proc EXCEPT ![p] = "dead"]
     \/ /\ FreePids(proc) # {}
        /\ proc' = [proc EXCEPT ![Min(FreePids(proc))] = "alive"]
  /\ UNCHANGED <<started, pidfile, cc>> /\ ConcFrame

NextConc ==
  \/ ConcEnv
  \/ \E d \in Daemons :
       \/ ConcCall(d) \/ ConcRecBegin(d)
       \/ ConcStopIfOwned(d) \/ ConcSioAlive(d) \/ ConcRemove(d)
       \/ ConcStopTerm(d) \/ ConcStopPoll(d) \/ ConcStopSleep(d)
       \/ ConcStopCheck(d) \/ ConcSioReturn(d)
       \/ ConcErBegin(d) \/ ConcErAlive(d) \/ ConcErPgrep(d) \/ ConcErAdopt(d)
       \/ ConcErFound(d) \/ ConcErPick(d) \/ ConcErStart(d) \/ ConcErWrite(d) \/ ConcErWrite2(d)
       \/ ConcErWait(d) \/ ConcErReturn(d)

\* Supervisor operations of two invocations, interleaved.
SpecConc == InitConc /\ [][NextConc]_vars

\* ---------------------------------------------------------------- claims
Recorded(p) == readPID(pidfile) = [pid |-> p, ok |-> TRUE]
StopPcs == {"stop_term", "stop_poll", "stop_sleep", "stop_check"}

\* C1 as stated: every SIGTERM/SIGKILL goes to a process this daemon
\* started and that the ownership record names when the signal is sent.
C1_SignalledIsStartedAndRecorded ==
  [][\A s \in sigs' \ sigs : s.pid \in started /\ Recorded(s.pid)]_vars

\* C1: every SIGTERM/SIGKILL goes to a process this daemon started, never to
\* an adopted or other external process; the record names that process when
\* the signal is sent, except when EnsureRunning stops the process it has
\* just started because writing the record failed.
C1_SignalledIsOwnStarted ==
  [][\A s \in sigs' \ sigs :
       /\ s.pid \in started
       /\ kind # "adopted"
       /\ Recorded(s.pid) \/ stopFrom = "er_write"]_vars

\* doRecovery has sent SIGTERM to the recorded process while an external
\* sing-box is running.
C1_Witness ==
  /\ op = "recover" /\ pc = "stop_poll"
  /\ Signal(pid, "TERM") \in sigs
  /\ AlivePids(proc) \ started # {}

\* C2 as stated: in the watchdog loop recoveries never exceeds MaxRecoveries.
C2_RecoveriesWithinBudget ==
  op = "run" => recoveries <= wcfg.MaxRecoveries

\* C3 as stated: a recovery attempt starts only on the probe at which the
\* run of failures reaches FailureThreshold (one attempt per crossing).
C3_OneAttemptPerCrossing ==
  [][(wcfg.FailureThreshold >= 1 /\ recoveries' = recoveries + 1)
       => (consecutiveFails' = wcfg.FailureThreshold
           /\ consecutiveFails = wcfg.FailureThreshold - 1)]_vars

\* C3: each probe of the loop starts at most one recovery attempt, and
\* starts one exactly when the failure counter after the probe is at or above
\* FailureThreshold and the budget is not used up, so a run of failures that
\* stays above the threshold gets one attempt per tick; an attempt starts
\* nowhere else, hence never while another one is in progress.
C3_OneAttemptPerFailingTick ==
  [][(op = "run" /\ op' = "run") =>
       /\ pc = "w_probe" =>
            IF consecutiveFails' >= wcfg.FailureThreshold
               /\ recoveries < wcfg.MaxRecoveries
            THEN recoveries' = recoveries + 1 /\ pc' \in {"rec_begin", "hung"}
            ELSE recoveries' = recoveries /\ pc' = "w_tick"
       /\ pc # "w_probe" => recoveries' = recoveries /\ pc' # "rec_begin"]_vars

\* The second attempt begins on a failing probe after the threshold of 2 was
\* already reached.
C3_Witness ==
  /\ op = "run" /\ pc = "rec_begin"
  /\ wcfg.FailureThreshold = 2 /\ consecutiveFails = 3 /\ recoveries = 2

\* C4: the watchdog never runs the router-down script, and pf_apply is
\* entered, in up and in recovery, only from a successful return of
\* EnsureRunning of the same cycle, with the interface name it returned,
\* which is a non-empty utun name.
C4_FailClosed ==
  [][/\ pc' = "down_script" => op = "down" /\ op' = "down"
     /\ (pc' = "pf_apply" /\ pc # "pf_apply") =>
          /\ pc = "er_ret" /\ err = ""
          /\ st.Running /\ st.NewUTUN \in Utuns
          /\ st' = st
     /\ (pc = "er_ret" /\ (err # "" \/ st.NewUTUN = "")) => pc' # "pf_apply"]_vars

\* A recovery of the watchdog has reached pf_apply with the utun of a
\* process EnsureRunning started in that cycle.
C4_Witness ==
  /\ op = "run" /\ pc = "pf_apply"
  /\ st.OwnedByUs /\ st.PID \in started /\ st.NewUTUN = "utun7"

\* C5 as stated: EnsureRunning decides in strict priority order.  A record
\* naming a live pid gives the owned path for that pid, without a search for
\* an external process; otherwise, with adoption enabled and a live matching
\* process, the adopted path for such a process, and nothing is started; a
\* process is started only when neither case applies.
C5_StrictPriority ==
  [][LET r == readPID(pidfile)
         owned == r.ok /\ processAlive(proc, r.pid)
         ext == cfg.adopt /\ AlivePids(proc) # {} IN
     /\ (pc = "er_begin" /\ pc' # "er_ret") =>
          /\ owned => kind' = "owned" /\ pid' = r.pid /\ pc' = "er_pick"
          /\ (~owned /\ cfg.adopt) => pc' = "er_pgrep"
          /\ (~owned /\ ~cfg.adopt) => kind' = "started" /\ pc' = "er_start"
     /\ (pc = "er_pgrep" /\ pc' \notin {"er_pgrep", "hung"}) =>
          IF ext
          THEN kind' = "adopted" /\ pid' \in AlivePids(proc) /\ pc' = "er_pick"
          ELSE kind' = "started" /\ pc' = "er_start"
     /\ started' # started =>
          pc = "er_start" /\ kind = "started" /\ ~owned /\ ~ext
     /\ (pc' = "er_ret" /\ pc # "er_ret" /\ err' = "") =>
          st'.PID = pid /\ st'.Running /\ st'.OwnedByUs = (kind # "adopted")]_vars

\* C6 as stated: with no record, adoption disabled and no other tunnel
\* process, a successful EnsureRunning has started the process it reports,
\* the record holds its pid, and when an interface that is new since the
\* snapshot (or had no IPv4 then) has an IPv4 address, NewUTUN is such an
\* interface.
C6_StartReturnsNewInterface ==
  (pc = "er_ret" /\ err = "" /\ kind = "started" /\ ~cfg.adopt /\ ~entry.ok
     /\ AlivePids(proc) = {pid}) =>
    LET new == {u \in Utuns : ifaces[u] = "ip4"
                               /\ (u \notin before.set \/ u \in before.noIPv4)} IN
    /\ st.Running /\ st.OwnedByUs /\ st.PID = pid /\ pid \in started
    /\ pidfile = NumFile(pid)
    /\ new # {} => st.NewUTUN \in new

\* C7 as stated: after a successful return of an EnsureRunning that found a
\* record naming a dead pid, the record no longer holds that pid.
C7_StaleRecordGone ==
  (pc = "er_ret" /\ err = "" /\ entry.ok /\ kind # "owned") =>
    readPID(pidfile) # entry

\* C7: a record naming a dead pid never gives the owned path; when
\* EnsureRunning then starts a process and returns successfully the record
\* holds the new pid, and when it adopts a process instead the record still
\* holds the dead pid.
C7_StaleRecordOverwrittenByStart ==
  /\ (pc \in {"er_pick", "er_start", "er_write", "er_wait", "er_ret"}
       /\ kind = "owned") => entry = [pid |-> pid, ok |-> TRUE]
  /\ (pc = "er_ret" /\ err = "" /\ entry.ok /\ kind # "owned") =>
       IF kind = "started"
       THEN pidfile = NumFile(pid) /\ pid # entry.pid /\ pid \in started
       ELSE kind = "adopted" /\ readPID(pidfile) = entry
                             /\ ~processAlive(proc, entry.pid)

\* EnsureRunning found a record naming a dead pid, started a process and
\* returned successfully.
C7_Witness ==
  /\ pc = "er_ret" /\ err = "" /\ kind = "started"
  /\ entry.ok /\ proc[entry.pid] = "dead" /\ pidfile = NumFile(pid)

\* C8 as stated: when EnsureRunning returns the readiness-timeout error the
\* process it started is not alive and the record is absent.
C8_NoOrphanAfterTimeout ==
  (pc = "er_ret"
     /\ err = "sing-box started but no utun appeared before timeout") =>
    ~processAlive(proc, pid) /\ pidfile = NoFile

\* C9 as stated: when StopIfOwned returns, whatever the outcome, there is no
\* ownership record.
C9_RecordAlwaysCleared ==
  pc = "sio_ret" => ~readPID(pidfile).ok

\* C9: when StopIfOwned returns success there is no ownership record; when
\* it returns an error both signals were sent, the process is still alive
\* and the record still names it.
C9_RecordClearedOnSuccess ==
  pc = "sio_ret" =>
    IF err = "" THEN ~readPID(pidfile).ok
    ELSE /\ Recorded(pid) /\ processAlive(proc, pid)
         /\ {Signal(pid, "TERM"), Signal(pid, "KILL")} \subseteq sigs

\* StopIfOwned has returned success after the forceful kill.
C9_Witness ==
  /\ pc = "sio_ret" /\ err = "" /\ pidfile = NoFile
  /\ Signal(pid, "KILL") \in sigs /\ proc[pid] = "dead"

\* C10 as stated: a StopIfOwned that directly follows a StopIfOwned follows
\* a successful one, returns success and changes nothing.
C10_TwiceSucceeds ==
  [][(pc = "sio" /\ op = "stop" /\ lastOp.op = "stop") =>
       /\ lastOp.ok
       /\ pc' = "sio_ret" /\ err' = ""
       /\ UNCHANGED <<world, sigs>>]_vars

\* C10: a StopIfOwned that directly follows a successful StopIfOwned
\* returns success, sends no signal and changes neither the record nor any
\* process.
C10_SecondStopIsNoOp ==
  [][(pc = "sio" /\ op = "stop" /\ lastOp.op = "stop" /\ lastOp.ok) =>
       /\ pc' = "sio_ret" /\ err' = ""
       /\ UNCHANGED <<world, sigs>>]_vars

\* The second of two successive StopIfOwned calls has returned; the first
\* one had signalled a process and returned success.
C10_Witness ==
  /\ pc = "sio_ret" /\ op = "stop" /\ err = ""
  /\ lastOp = [op |-> "stop", ok |-> TRUE, signalled |-> TRUE, recoveries |-> 0]

ErPcs == {"er_pgrep", "er_pick", "er_start", "er_write", "er_wait", "er_ret"}
preferUTUN == tunNameFromConfig(cfg.inbounds)

\* C11: on the adoption path of EnsureRunning the record file is never
\* changed, and when EnsureRunning returns a process with OwnedByUs false the
\* record does not hold that process's pid.
C11_AdoptionWritesNoRecord ==
  [][/\ (pc \in ErPcs /\ kind = "adopted") => pidfile' = pidfile
     /\ kind' = "adopted" => pidfile' = pidfile
     /\ (pc' = "er_ret" /\ err' = "" /\ ~st'.OwnedByUs) =>
          readPID(pidfile') # [pid |-> st'.PID, ok |-> TRUE]]_vars

\* EnsureRunning has returned an adopted external process and there is no
\* record.
C11_Witness ==
  /\ pc = "er_ret" /\ err = "" /\ kind = "adopted" /\ ~st.OwnedByUs
  /\ st.PID \notin started /\ pidfile = NoFile

\* C12: when EnsureRunning returns a Status with OwnedByUs true the record
\* holds exactly Status.PID, and when it returns a running process with
\* OwnedByUs false the record does not name it; what Inspect returns is
\* owned exactly when the record holds its PID, and Inspect never reports a
\* running process that is not owned.
C12_RecordIsSourceOfTruth ==
  /\ (pc = "er_ret" /\ err = "") =>
       /\ st.OwnedByUs => Recorded(st.PID)
       /\ (st.Running /\ ~st.OwnedByUs) => ~Recorded(st.PID)
  /\ LET i == Inspect(pidfile, proc) IN
     /\ i.OwnedByUs <=> readPID(pidfile).ok
     /\ i.OwnedByUs => Recorded(i.PID)
     /\ i.Running => i.OwnedByUs /\ processAlive(proc, i.PID)

\* EnsureRunning has returned the recorded process as owned, and Inspect
\* reports the same process.
C12_Witness ==
  /\ pc = "er_ret" /\ err = "" /\ kind = "owned"
  /\ Inspect(pidfile, proc) =
       [Running |-> TRUE, PID |-> st.PID, OwnedByUs |-> TRUE, NewUTUN |-> ""]

\* C13: with a preferred name a poll of waitForUTUNReady yields that name
\* or nothing, whatever other interface is ready; the wait ends either by
\* returning the preferred name while it has an IPv4 address, or, when it has
\* none at the last poll, by the timeout: an error return, after the stop of
\* the process EnsureRunning had started.
C13_PreferredNameOnly ==
  [][(pc = "er_wait" /\ preferUTUN # "") =>
       /\ \A aerr \in SUBSET Utuns :
            waitPoll(before, preferUTUN, ifaces, aerr) \in {"", preferUTUN}
       /\ pc' # "er_wait" =>
            \/ /\ pc' = "er_ret" /\ err' = ""
               /\ st'.NewUTUN = preferUTUN /\ ifaces[preferUTUN] = "ip4"
            \/ /\ pc' = "er_ret" /\ err' # "" /\ st' = NoStatus
               /\ kind # "started"
            \/ /\ pc' = "stop_term" /\ stopFrom' = "er_wait"
               /\ kind = "started"]_vars

\* The wait has returned the preferred utun7 although utun0, first in the
\* enumeration, has an IPv4 address too.
C13_Witness ==
  /\ pc = "er_ret" /\ err = "" /\ kind = "started"
  /\ preferUTUN = "utun7" /\ st.NewUTUN = "utun7"
  /\ ifaces["utun0"] = "ip4"

\* C14 as stated: with no preferred name and the utuns all in the before
\* snapshot, the interface the wait returns is new since the snapshot or was
\* in it without an IPv4 address.
C14_OnlyNewOrNewlyAddressed ==
  (pc = "er_ret" /\ err = "" /\ kind = "started" /\ preferUTUN = ""
     /\ before.set = Utuns) =>
    (st.NewUTUN \notin before.set \/ st.NewUTUN \in before.noIPv4)

\* C15 as stated: the interface EnsureRunning returns has an IPv4 address
\* when the enumeration selects it.
C15_ReturnedInterfaceHasIPv4 ==
  (pc = "er_ret" /\ err = "") => ifaces[st.NewUTUN] = "ip4"

\* ------------------------------------------------------- the health probe
InitHealth ==
  /\ InitSupervisor /\ pidfile = NoFile
  /\ hcIn \in HealthInputs /\ hcRes = NoResult
  /\ scIn = NoCommand /\ scRes = NoScriptResult
  /\ mIn = NoInvocation /\ mSt = NotStarted
  /\ inv = [d \in Daemons |-> NoFrame] /\ calls = 0

HealthProbe ==
  /\ hcRes = NoResult
  /\ hcRes' = CheckExpected(hcIn.x, hcIn.expectedIPs)
  /\ UNCHANGED <<world, sigs, op, pc, cfg, locals, st, err, lastOp, wd, hcIn, sc, mn, cc>>

NextHealth == HealthProbe

\* healthcheck.CheckExpected on every exchange and expectedIPs list.
SpecHealth == InitHealth /\ [][NextHealth]_vars

InitScript ==
  /\ InitSupervisor /\ pidfile = NoFile
  /\ hcIn = NoProbe /\ hcRes = NoResult
  /\ scIn \in Commands /\ scRes = NoScriptResult
  /\ mIn = NoInvocation /\ mSt = NotStarted
  /\ inv = [d \in Daemons |-> NoFrame] /\ calls = 0

ScriptCall ==
  /\ scRes = NoScriptResult
  /\ scRes' \in RunScript(scIn)
  /\ UNCHANGED <<world, sigs, op, pc, cfg, locals, st, err, lastOp, wd, hc, scIn, mn, cc>>

NextScript == ScriptCall

\* control.RunScript on every course the command can take.
SpecScript == InitScript /\ [][NextScript]_vars

InitMain ==
  /\ InitSupervisor /\ pidfile = NoFile
  /\ hcIn = NoProbe /\ hcRes = NoResult
  /\ scIn = NoCommand /\ scRes = NoScriptResult
  /\ mIn \in Invocations /\ mSt = NotStarted
  /\ inv = [d \in Daemons |-> NoFrame] /\ calls = 0

MainFrame ==
  UNCHANGED <<world, sigs, op, pc, cfg, locals, st, err, lastOp, wd, hc, sc, mIn, cc>>

\* cfg, err := config.Load(*cfgPath); on an error os.Exit(1)
MainLoad ==
  /\ mSt.pc = "start"
  /\ LET l == Load(mIn) IN
     mSt' = [mSt EXCEPT !.pc = IF l.ok THEN "flags" ELSE "exit",
                        !.cfg = l.cfg, !.loads = @ + 1]
  /\ MainFrame

MainFlags ==
  /\ mSt.pc = "flags"
  /\ mSt' = [mSt EXCEPT !.pc = "dispatch",
                        !.healthTimeout = effectiveHealthTimeout(mIn, mSt.cfg)]
  /\ MainFrame

\* A dispatch that lets every subcommand go on without looking at the euid.
MainDispatchNoRootCheck ==
  /\ mSt.pc = "dispatch"
  /\ mSt' = IF mIn.cmd = "bogus" THEN [mSt EXCEPT !.pc = "exit"]
            ELSE [mSt EXCEPT !.pc = "body",
                    !.interval = IF mIn.cmd = "run"
                                 THEN tickInterval(mSt.cfg, mSt.healthTimeout)
                                 ELSE 0]
  /\ MainFrame

\* switch cmd: up, down and run begin with requireRoot and return its error,
\* status does not; cmdRun then makes its ticker.
MainDispatch ==
  /\ mSt.pc = "dispatch"
  /\ mSt' = IF mIn.cmd = "bogus" THEN [mSt EXCEPT !.pc = "exit"]
            ELSE IF mIn.cmd \in {"up", "down", "run"} /\ mIn.euid # RootUid
            THEN [mSt EXCEPT !.pc = "fatal"]
            ELSE [mSt EXCEPT !.pc = "body",
                    !.interval = IF mIn.cmd = "run"
                                 THEN tickInterval(mSt.cfg, mSt.healthTimeout)
                                 ELSE 0]
  /\ MainFrame

\* the first script, signal or probe of the subcommand
MainAct ==
  /\ mSt.pc = "body"
  /\ mSt' = [mSt EXCEPT !.pc = "running", !.acted = FirstAction(mIn.cmd)]
  /\ MainFrame

NextMain == MainLoad \/ MainFlags \/ MainDispatch \/ MainAct

\* main on every config file, command line and euid.
SpecMain == InitMain /\ [][NextMain]_vars

Succeeded200 ==
  hcIn.x.fail = "" /\ hcIn.x.status = StatusOK /\ TrimSpace(hcIn.x.body) # <<>>

\* C16 as stated: OK exactly when the call gave status 200, the trimmed body
\* is non-empty and, for a non-empty list, the body equals one of the
\* entries; otherwise, with 200 and a non-empty body, OK is false with an
\* error text and StatusCode 200.
C16_OkIffBodyEqualsEntry ==
  hcRes # NoResult =>
    LET exp == hcIn.expectedIPs
        body == TrimSpace(hcIn.x.body)
        match == exp = <<>> \/ \E i \in 1..Len(exp) : exp[i] = body IN
    /\ hcRes.OK <=> (Succeeded200 /\ match)
    /\ (Succeeded200 /\ ~match) =>
         ~hcRes.OK /\ hcRes.Err # "" /\ hcRes.StatusCode = StatusOK

\* C16: OK exactly when the call gave status 200, the trimmed body is
\* non-empty and, for a non-empty list, the trimmed body equals one of the
\* entries with its surrounding white space trimmed; otherwise, with 200 and
\* a non-empty body, OK is false with an error text and StatusCode 200.
C16_OkIffBodyEqualsTrimmedEntry ==
  hcRes # NoResult =>
    LET exp == hcIn.expectedIPs
        body == TrimSpace(hcIn.x.body)
        match == exp = <<>> \/ \E i \in 1..Len(exp) : TrimSpace(exp[i]) = body IN
    /\ hcRes.OK <=> (Succeeded200 /\ match)
    /\ hcRes.Body = body \/ hcIn.x.fail # ""
    /\ (Succeeded200 /\ ~match) =>
         ~hcRes.OK /\ hcRes.Err # "" /\ hcRes.StatusCode = StatusOK

\* The probe is OK through an entry written with white space around it,
\* after an entry that does not match.
C16_Witness ==
  /\ hcRes.OK /\ hcRes.Body = <<"a">>
  /\ hcIn.x.body = <<"a", " ">>
  /\ hcIn.expectedIPs = << <<"b">>, <<" ", "a">> >>

\* C17: the failure counter decreases, or becomes 0, only in a step that is
\* the per-tick probe or the post-recovery probe with result ok, and then it
\* becomes 0.
C17_ResetOnlyOnOkProbe ==
  [][(/\ op = "run" /\ op' = "run"
      /\ \/ consecutiveFails' < consecutiveFails
         \/ consecutiveFails' = 0 /\ consecutiveFails # 0) =>
       /\ consecutiveFails' = 0
       /\ pc \in {"w_probe", "w_cooldown"}
       /\ h' = "ok"]_vars

\* After two failed probes and a recovery without error the post-recovery
\* probe was ok and the counter is 0.
C17_Witness ==
  /\ op = "run" /\ pc = "w_tick" /\ wcfg.FailureThreshold = 2
  /\ recoveries = 1 /\ h = "ok" /\ report = "succeeded"
  /\ consecutiveFails = 0

\* C18: a per-tick probe that fails adds exactly 1 to the failure counter,
\* and when the counter is then below FailureThreshold the watchdog goes on
\* to wait for the next tick: recoveries, the record, the processes and the
\* signals sent are unchanged.
C18_FailCountsOneNoActionBelowThreshold ==
  [][(pc = "w_probe" /\ h' = "fail") =>
       /\ consecutiveFails' = consecutiveFails + 1
       /\ consecutiveFails' < wcfg.FailureThreshold =>
            /\ pc' = "w_tick" /\ recoveries' = recoveries
            /\ UNCHANGED <<world, sigs>>]_vars

\* The first failed probe with a threshold of 2: the watchdog waits for the
\* next tick.
C18_Witness ==
  /\ op = "run" /\ pc = "w_tick" /\ wcfg.FailureThreshold = 2
  /\ h = "fail" /\ consecutiveFails = 1 /\ recoveries = 0 /\ report = "none"

\* The stage of a recovery cycle a program position belongs to.
Stage(p, sf) ==
  CASE p = "rec_begin" -> "begin"
    [] p \in {"sio", "sio_ret"} \/ (p \in StopPcs /\ sf = "sio") -> "stop"
    [] p \in ErPcs \cup {"er_begin"} \/ (p \in StopPcs /\ sf # "sio") -> "ensure"
    [] p = "pf_apply" -> "apply"
    [] p = "rec_ret" -> "return"
    [] p = "w_cooldown" -> "cooldown"
    [] p = "hung" -> "hung"
    [] OTHER -> "loop"

RecoveryOrder ==
  { <<"loop", "loop">>, <<"loop", "begin">>,
    <<"begin", "stop">>, <<"begin", "ensure">>,
    <<"stop", "stop">>, <<"stop", "ensure">>, <<"stop", "return">>,
    <<"ensure", "ensure">>, <<"ensure", "apply">>, <<"ensure", "return">>,
    <<"apply", "apply">>, <<"apply", "return">>,
    <<"return", "cooldown">>,
    <<"cooldown", "cooldown">>, <<"cooldown", "loop">>,
    <<"loop", "hung">>, <<"ensure", "hung">>, <<"hung", "hung">> }

\* C19: a recovery cycle of the watchdog goes through its stages in the
\* order stop (exactly when a record is there), EnsureRunning, pf_apply,
\* return, cooldown, post-recovery probe, never back: StopIfOwned is entered
\* only at the start of the cycle, EnsureRunning only from there or after
\* StopIfOwned, pf_apply only from a return of EnsureRunning and with the
\* interface it returned, the cooldown always follows the return of
\* doRecovery, and the one probe after it leads back to the tick.
C19_RecoveryStepsInOrder ==
  [][(op = "run" /\ op' = "run") =>
       /\ <<Stage(pc, stopFrom), Stage(pc', stopFrom')>> \in RecoveryOrder
       /\ pc = "rec_begin" => (pc' = "sio" <=> readPID(pidfile).ok)
       /\ pc' = "sio" => pc = "rec_begin"
       /\ pc' = "er_begin" => pc \in {"rec_begin", "sio_ret"}
       /\ (pc' = "pf_apply" /\ pc # "pf_apply") =>
            pc = "er_ret" /\ st' = st /\ st.NewUTUN # ""
       /\ (pc = "w_cooldown" /\ pc' # "w_cooldown") =>
            pc' = "w_tick" /\ h' # "none" /\ report' # "none"]_vars

\* The cooldown of a cycle that stopped the owned process, started another
\* one and applied the policy.
C19_Witness ==
  /\ op = "run" /\ pc = "w_cooldown" /\ ~recErr
  /\ \E p, q \in started : p # q /\ proc[p] = "dead" /\ Recorded(q)

\* C20: a post-recovery probe that is ok sets the failure counter to 0,
\* with or without a recovery error, and success is reported exactly when
\* doRecovery returned no error; a post-recovery probe that fails leaves the
\* counter as it is and reports no success.
C20_PostProbe ==
  [][(pc = "w_cooldown" /\ pc' # "w_cooldown") =>
       /\ h' = "ok" =>
            consecutiveFails' = 0 /\ (report' = "succeeded" <=> ~recErr)
       /\ h' = "fail" =>
            consecutiveFails' = consecutiveFails /\ report' # "succeeded"]_vars

\* The probe after a recovery that returned an error was ok: the counter is
\* 0 and no success is reported.
C20_Witness ==
  /\ op = "run" /\ pc = "w_tick" /\ wcfg.FailureThreshold = 2
  /\ h = "ok" /\ report = "ambiguous" /\ consecutiveFails = 0

\* C24 as stated: RunScript runs the command once and always returns a
\* Result.  The error is the timeout error exactly when the deadline has
\* passed, whatever the command did; the command-failed error exactly when
\* the deadline has not passed and the command did not start, was ended by a
\* signal or exited with a status other than 0; nil exactly when it exited
\* with 0 inside the deadline.  ExitCode is the command's own exit status
\* when it has one, and -1 only when it has none.
C24_RunScriptContract ==
  scRes # NoScriptResult =>
    LET bad == scIn.how # "exit" \/ scIn.code # 0 IN
    /\ scRes.res # NilResult /\ scRes.runs = 1
    /\ scRes.res.Stdout = TrimSpace(scIn.stdout)
    /\ scRes.res.Stderr = TrimSpace(scIn.stderr)
    /\ scRes.err = "command timed out" <=> scIn.expired
    /\ scRes.err = "command failed" <=> (~scIn.expired /\ bad)
    /\ scRes.err = "" <=> (~scIn.expired /\ ~bad)
    /\ scIn.how = "exit" => scRes.res.ExitCode = scIn.code
    /\ scRes.res.ExitCode = -1 => scIn.how # "exit"

\* C25: while the record file is absent, unparsable or holds a number <= 1,
\* Inspect reports OwnedByUs false, StopIfOwned returns nil without a signal
\* and without touching a process or the file, and EnsureRunning does not
\* take the owned path; no signal ever goes to a pid <= 1.
C25_InvalidRecordIsNoRecord ==
  [][LET none == pidfile.st # "num" \/ pidfile.n <= 1 IN
     /\ none => ~Inspect(pidfile, proc).OwnedByUs
     /\ (none /\ pc = "sio") =>
          /\ pc' = "sio_ret" /\ err' = "" /\ sigs' = sigs
          /\ UNCHANGED world
     /\ (none /\ pc = "er_begin") => kind' # "owned"
     /\ (none /\ pc = "rec_begin") => pc' = "er_begin"
     /\ \A s \in sigs' : s.pid > 1]_vars

\* StopIfOwned has returned nil, without a signal, on a record file that
\* holds the number 1.
C25_Witness ==
  /\ pidfile = NumFile(1)
  /\ lastOp = [op |-> "stop", ok |-> TRUE, signalled |-> FALSE, recoveries |-> 0]

\* C30 as stated: with a pinned interface name a successful EnsureRunning
\* returns that name, on the owned, the adopted and the started path.
C30_PinnedNameOnEveryPath ==
  (pc = "er_ret" /\ err = "" /\ preferUTUN # "") => st.NewUTUN = preferUTUN

\* C27 as stated: the ticker of vpnrd run gets check_interval, and gets the
\* health timeout only when --health-timeout was given on the command line.
C27_IntervalIsCheckInterval ==
  (mIn.cmd = "run" /\ mSt.pc \in {"body", "running"}) =>
    LET overridden == mIn.cliHealthTimeout # 0 \/ mIn.extra.given IN
    /\ mSt.interval \in {mSt.cfg.CheckInterval, mSt.healthTimeout}
    /\ ~overridden => mSt.interval = mSt.cfg.CheckInterval

\* C28: when the config cannot be read or parsed or is invalid, main exits
\* without dispatching; up, down and run without root end in their error
\* before the first script, signal or probe; the config is loaded and
\* validated once, before the subcommand starts, and a subcommand acts only
\* after that with a valid config.
C28_FatalBeforeAnyAction ==
  LET valid == /\ mIn.file = "ok" /\ mIn.scripts
               /\ (mIn.check_interval = 0 \/ mIn.check_interval >= 1)
               /\ (mIn.command_timeout = 0 \/ mIn.command_timeout >= 1)
               /\ mIn.singbox.singbox_auto_start =>
                    /\ mIn.singbox.singbox_config_path # <<>>
                    /\ ~(mIn.singbox.singbox_adopt_external # "false"
                         /\ mIn.singbox.singbox_config_path = <<" ">>)
                    /\ (mIn.singbox.singbox_start_timeout = 0
                        \/ mIn.singbox.singbox_start_timeout >= 1)
      needsRoot == mIn.cmd \in {"up", "down", "run"} IN
  /\ mSt.loads <= 1
  /\ mSt.pc # "start" => mSt.loads = 1
  /\ ~valid => mSt.pc \in {"start", "exit"} /\ mSt.acted = "none"
  /\ (needsRoot /\ mIn.euid # RootUid) =>
       mSt.pc \notin {"body", "running"} /\ mSt.acted = "none"
  /\ mSt.acted # "none" =>
       valid /\ mSt.pc = "running" /\ mSt.acted = FirstAction(mIn.cmd)

\* vpnrd run without root and with a valid config has ended in the error
\* of requireRoot.
C28_Witness ==
  /\ mIn.cmd = "run" /\ mIn.euid # RootUid /\ mIn.file = "ok"
  /\ mSt.pc = "fatal" /\ mSt.acted = "none" /\ mSt.loads = 1

\* C21: the watchdog loop never exits on its own, and after every outcome
\* of a tick it probes again.  cmdRun is left only by the end of the process
\* from outside.  A tick has its outcome when doRecovery has returned,
\* whatever it returned (rec_ret, then the cooldown and the post-recovery
\* probe), or when the probe was healthy, failed below the threshold or
\* found the budget used up (w_tick); from each of these the loop reaches
\* the next probe, unless the process is ended from outside first, also
\* when the budget is used up.
C21_ProbingForever ==
  /\ [][(op = "run" /\ op' # "run") => DaemonExit]_vars
  /\ [][(op = "run" /\ pc \in {"rec_ret", "w_cooldown", "w_tick"}
          /\ op' = "run" /\ pc' # pc) =>
           pc' = (CASE pc = "rec_ret" -> "w_cooldown"
                    [] pc = "w_cooldown" -> "w_tick"
                    [] pc = "w_tick" -> "w_probe")]_vars
  /\ []((op = "run" /\ pc \in {"rec_ret", "w_cooldown", "w_tick"}) =>
         <>(pc = "w_probe" \/ op # "run"))

\* The watchdog is at its next probe after the second recovery has used up
\* the budget and its post-recovery probe has failed.
C21_Witness ==
  /\ op = "run" /\ pc = "w_probe"
  /\ wcfg.FailureThreshold = 2 /\ wcfg.MaxRecoveries = 2
  /\ recoveries = 2 /\ consecutiveFails = 3

\* C22 as stated: a tick makes one probe, and with a recovery cycle the
\* post-recovery probe, and nothing else.
C22_OneProbePerTick ==
  (op = "run" /\ pc = "w_tick") => probes = (IF report = "none" THEN 1 ELSE 2)

\* C22: the loop is sequential.  A tick makes one probe that drives the
\* counter and begins at most one recovery cycle, right after that probe; a
\* tick with a recovery cycle makes two more probes, the one inside the status
\* snapshot before doRecovery and the post-recovery probe, so 3 in a row;
\* probes are made nowhere else, and the next tick's probe begins only from
\* the wait for the tick, after the cycle with its cooldown and its probe.
C22_Sequential ==
  [][(op = "run" /\ op' = "run") =>
       /\ pc' = "w_tick" => probes' = (IF report' = "none" THEN 1 ELSE 3)
       /\ probes' # probes => pc \in {"w_tick", "w_probe", "w_cooldown"}
       /\ (pc' = "w_probe" /\ pc # "w_probe") => pc = "w_tick" /\ probes' = 0
       /\ (pc' = "rec_begin" \/ recoveries' # recoveries) =>
            pc = "w_probe" /\ probes = 0 /\ recoveries' = recoveries + 1
       /\ (pc = "w_cooldown" /\ pc' # "w_cooldown") =>
            pc' = "w_tick" /\ probes' = probes + 1]_vars

\* A tick with a recovery cycle has ended: three probes were made.
C22_Witness ==
  /\ op = "run" /\ pc = "w_tick" /\ probes = 3 /\ report = "succeeded"

\* C23 as stated: the watchdog is never blocked in an external call that
\* has no deadline, so every tick reaches the wait for the next one.
C23_EveryCallHasDeadline ==
  op = "run" => pc # "hung"

\* C26: a daemon that is ended leaves the record and the processes as they
\* are, and a new watchdog begins with both counters at 0 whatever the one
\* before it had used; a record that names a live process makes EnsureRunning
\* take the owned path for that pid, without adopting or starting anything,
\* and makes StopIfOwned stop that pid, whichever daemon started it.
C26_OwnershipSurvivesRestart ==
  [][LET r == readPID(pidfile)
         live == r.ok /\ processAlive(proc, r.pid) IN
     /\ (op # "none" /\ op' = "none") =>
          UNCHANGED world /\ recoveries' = 0 /\ consecutiveFails' = 0
     /\ (op = "none" /\ op' = "run") =>
          consecutiveFails' = 0 /\ recoveries' = 0 /\ UNCHANGED world
     /\ (live /\ pc = "er_begin" /\ pc' # "er_ret") =>
          /\ kind' = "owned" /\ pid' = r.pid /\ pc' = "er_pick"
          /\ UNCHANGED world
     /\ (live /\ pc = "sio") =>
          pid' = r.pid /\ pc' = "stop_term" /\ stopFrom' = "sio"]_vars

\* A watchdog that had used two recoveries was ended and a new one has
\* begun: its counters are 0, and the process an earlier daemon started is
\* alive and named by the record.
C26_Witness ==
  /\ op = "run" /\ pc = "w_probe" /\ h = "none"
  /\ lastOp.op = "run" /\ lastOp.recoveries = 2
  /\ recoveries = 0 /\ consecutiveFails = 0
  /\ \E p \in started : Recorded(p) /\ proc[p] = "alive"

\* C29: a probe of the loop begins a recovery attempt exactly when the
\* counter after it is at or above FailureThreshold and recoveries is below
\* MaxRecoveries; recoveries then grows by exactly 1 in that same step, before
\* any process, record or signal is touched; no other step of the daemon
\* changes recoveries, so the attempt stays counted when doRecovery returns
\* an error or the post-recovery probe fails, and recoveries never decreases.
C29_AttemptCountedOnce ==
  [][(op = "run" /\ op' = "run") =>
       /\ recoveries' \in {recoveries, recoveries + 1}
       /\ pc = "w_probe" =>
            (recoveries' = recoveries + 1 <=>
               (consecutiveFails' >= wcfg.FailureThreshold
                /\ recoveries < wcfg.MaxRecoveries))
       /\ recoveries' = recoveries + 1 =>
            /\ pc = "w_probe" /\ pc' \in {"rec_begin", "hung"}
            /\ UNCHANGED <<world, sigs>>
       /\ pc \in {"rec_ret", "w_cooldown"} => recoveries' = recoveries]_vars

\* The recovery was counted, doRecovery and the probe after it are over, and
\* health is not restored.
C29_Witness ==
  /\ op = "run" /\ pc = "w_tick" /\ report = "not restored"
  /\ recoveries = 1 /\ wcfg.MaxRecoveries = 2 /\ consecutiveFails = 2

\* C31: doRecovery calls StopIfOwned exactly when a record is there, and
\* StopIfOwned then stops the live process the record names; when doRecovery
\* returns without error every process it signalled is dead and is not the
\* process EnsureRunning reported, and that process is alive when it is
\* chosen.  On the adoption path of the cycle nothing is signalled or started
\* and the record stays as it is: an adopted process gets no signal.
C31_RecoveryRestartsOwned ==
  [][(op \in {"recover", "run"} /\ op' = op) =>
       LET r == readPID(pidfile)
           live == r.ok /\ processAlive(proc, r.pid) IN
       /\ (pc = "rec_begin" /\ live) => pc' = "sio"
       /\ (pc = "sio" /\ live) =>
            pc' = "stop_term" /\ pid' = r.pid /\ stopFrom' = "sio"
       /\ (pc = "stop_term" /\ stopFrom = "sio") => Signal(pid, "TERM") \in sigs'
       /\ (pc' = "rec_ret" /\ ~recErr') =>
            /\ st'.Running /\ st'.PID \in Pids
            /\ \A s \in sigs' : proc'[s.pid] = "dead" /\ s.pid # st'.PID
            /\ ~st'.OwnedByUs => st'.PID \notin {s.pid : s \in sigs'}
       /\ (pc \in ErPcs /\ kind = "adopted") =>
            /\ sigs' = sigs /\ started' = started /\ pidfile' = pidfile
            /\ pc' \notin StopPcs \cup {"er_start", "er_write"}
       /\ (pc' = "er_pick" /\ pc # "er_pick") => processAlive(proc, pid')]_vars

\* doRecovery has returned without error: the process the record named was
\* stopped with SIGTERM and EnsureRunning started and reported another one.
C31_Witness ==
  /\ op = "recover" /\ pc = "rec_ret" /\ ~recErr
  /\ st.OwnedByUs /\ st.PID \in started /\ Recorded(st.PID)
  /\ \E p \in started :
       p # st.PID /\ proc[p] = "dead" /\ sigs = {Signal(p, "TERM")}

\* C32: stopPID first sends SIGTERM and nothing else; a poll of the grace
\* period that finds the process dead ends stopPID with success and without
\* SIGKILL; SIGKILL is sent only after SIGTERM, when the grace period is over
\* and every poll of it found the process alive, and to the same pid; after
\* the SIGKILL stopPID returns, and StopIfOwned gets an error from it exactly
\* when the process is then still alive.
C32_EscalatesAfterGrace ==
  [][/\ pc = "stop_term" =>
          sigs' = sigs \cup {Signal(pid, "TERM")} /\ pc' = "stop_poll"
     /\ pc \in StopPcs =>
          /\ pid' = pid
          /\ sigs' \ sigs \subseteq {Signal(pid, "TERM"), Signal(pid, "KILL")}
     /\ (pc' = "stop_sleep" /\ pc # "stop_sleep") =>
          pc = "stop_poll" /\ processAlive(proc, pid) /\ sigs' = sigs
     /\ Signal(pid, "KILL") \in sigs' \ sigs =>
          /\ pc = "stop_sleep" /\ pc' = "stop_check"
          /\ Signal(pid, "TERM") \in sigs
     /\ (pc \in {"stop_poll", "stop_sleep"} /\ pc' \notin StopPcs) =>
          /\ ~processAlive(proc, pid)
          /\ sigs' = sigs /\ Signal(pid, "KILL") \notin sigs'
          /\ stopFrom = "sio" => err' = "" /\ pc' = "sio_ret"
     /\ (pc = "stop_sleep" /\ pc' \in StopPcs \ {"stop_sleep"}) =>
          pc' = "stop_check" /\ Signal(pid, "KILL") \in sigs'
     /\ (pc = "stop_check" /\ pc' # "stop_check") =>
          /\ sigs' = sigs /\ pc' \notin StopPcs
          /\ stopFrom = "sio" =>
               /\ pc' = "sio_ret"
               /\ err' # "" <=> processAlive(proc, pid)]_vars

\* The process survived SIGTERM through the grace period and SIGKILL too:
\* StopIfOwned has returned stopPID's error.
C32_Witness ==
  /\ op = "stop" /\ pc = "sio_ret" /\ err = "failed to stop sing-box"
  /\ sigs = {Signal(pid, "TERM"), Signal(pid, "KILL")}
  /\ processAlive(proc, pid)

\* C33 as stated: on the start path the record names the started process
\* at every point of the readiness wait; when writing the record failed,
\* EnsureRunning returns its error with the started process stopped and no
\* record left, and it has not waited for an interface.
C33_RecordBeforeWait ==
  /\ (pc = "er_wait" /\ kind = "started") =>
       Recorded(pid) /\ pid \in started
  /\ (pc \in StopPcs /\ stopFrom = "er_write") => st = NoStatus
  /\ (pc = "er_ret" /\ err = "pidfile write") =>
       /\ pid \in started /\ st = NoStatus
       /\ ~processAlive(proc, pid)
       /\ ~readPID(pidfile).ok

\* C34 as stated: the watchdog is inside a recovery attempt (the snapshot,
\* StopIfOwned, EnsureRunning, pf_apply, the return of doRecovery) only on a
\* tick whose probe failed.
C34_RecoveryOnlyAfterFailedProbe ==
  (op = "run" /\ pc \notin {"w_probe", "w_tick", "w_cooldown"}) => h = "fail"

\* C35 as stated: between supervisor operations every live process this
\* daemon started is named by the record, so at most one of them is alive.
C35_NoOrphan ==
  pc = "idle" =>
    /\ \A p \in started : processAlive(proc, p) => Recorded(p)
    /\ Cardinality({p \in started : processAlive(proc, p)}) <= 1

\* C36 as stated: with two invocations at once, whenever neither is inside
\* an operation every live process the daemon started is named by the record
\* and there is at most one; never have both started a process in their
\* current operations; and none has signalled the process the other has
\* started and recorded in its current operation.
C36_OneTunnelUnderConcurrency ==
  /\ (\A d \in Daemons : inv[d].pc = "idle") =>
       /\ \A p \in started : processAlive(proc, p) => Recorded(p)
       /\ Cardinality({p \in started : processAlive(proc, p)}) <= 1
  /\ \A d, e \in Daemons :
       d # e =>
         /\ ~(/\ inv[d].kind = "started" /\ inv[d].pid \in started
              /\ inv[e].kind = "started" /\ inv[e].pid \in started)
         /\ ~(/\ inv[e].kind = "started" /\ inv[e].pc \in {"er_wait", "er_ret"}
              /\ inv[e].err = ""
              /\ \E s \in inv[d].sigs : s.pid = inv[e].pid)

\* C37: in doRecovery an error of StopIfOwned leads straight to the error
\* return, without EnsureRunning and pf_apply; an error of EnsureRunning, a
\* Status that is not running or an empty interface name leads straight to
\* the error return, without pf_apply; EnsureRunning is entered only from
\* the start or after a StopIfOwned without error, pf_apply only after an
\* EnsureRunning without error; doRecovery returns nil only from pf_apply,
\* and once its error is set nothing more is done.
C37_AbortsAtFirstFailure ==
  [][(op \in {"recover", "run"} /\ op' = op) =>
       /\ (pc = "sio_ret" /\ err # "") =>
            pc' = "rec_ret" /\ recErr' /\ UNCHANGED <<world, sigs>>
       /\ (pc = "er_ret" /\ (err # "" \/ ~st.Running \/ st.NewUTUN = "")) =>
            pc' = "rec_ret" /\ recErr' /\ UNCHANGED <<world, sigs>>
       /\ pc' = "er_begin" =>
            pc \in {"rec_begin", "sio_ret"} /\ (pc = "sio_ret" => err = "")
       /\ (pc' = "pf_apply" /\ pc # "pf_apply") =>
            pc = "er_ret" /\ err = "" /\ st.Running /\ st.NewUTUN # ""
       /\ (pc' = "rec_ret" /\ pc # "rec_ret" /\ ~recErr') => pc = "pf_apply"
       /\ recErr => pc \in {"rec_ret", "w_cooldown"}
       /\ pc = "rec_ret" => pc' \notin {"sio", "er_begin", "pf_apply"}]_vars

\* doRecovery has returned the error of StopIfOwned: the process survived
\* both signals, EnsureRunning was not called and nothing was started.
C37_Witness ==
  /\ op = "recover" /\ pc = "rec_ret" /\ recErr
  /\ err = "failed to stop sing-box" /\ st = NoStatus /\ kind = ""
  /\ processAlive(proc, pid) /\ Recorded(pid)

\* C38: an EnsureRunning whose first interface enumeration fails returns
\* without touching processes, signals or the record; on the owned and the
\* adopted path, up to the return and whether pickReady finds an interface,
\* waits for one or gives up, no process is started, no signal is sent, the
\* record file stays as it is and stopPID, startSingBox and writePID are
\* not reached; a process is started, a signal sent or the record changed
\* inside EnsureRunning on the start path only.
C38_OnlyStartPathChangesState ==
  [][LET inEr == pc \in ErPcs \cup {"er_begin"}
                   \/ (pc \in StopPcs /\ stopFrom # "sio") IN
     /\ (pc = "er_begin" /\ pc' = "er_ret") =>
          UNCHANGED <<world, sigs>> /\ err' = "list utun (before)"
     /\ (pc = "er_begin" /\ pc' # "er_begin") => UNCHANGED <<world, sigs>>
     /\ (pc \in ErPcs \ {"er_ret"} /\ kind \in {"owned", "adopted"}) =>
          /\ UNCHANGED <<started, pidfile, sigs>>
          /\ pc' \notin StopPcs \cup {"er_start", "er_write"}
     /\ (inEr /\ (started' # started \/ sigs' # sigs \/ pidfile' # pidfile)) =>
          kind = "started" \/ pc = "er_ret"]_vars

\* On the adopted path no interface became ready before the timeout:
\* EnsureRunning has returned its error, the external process is alive, no
\* signal was sent and there is no record.
C38_Witness ==
  /\ op = "ensure" /\ pc = "er_ret" /\ kind = "adopted"
  /\ err = "no utun before timeout"
  /\ processAlive(proc, pid) /\ pid \notin started
  /\ sigs = {} /\ pidfile = NoFile

\* C39: in vpnrd down the router-down script is begun only from a return of
\* StopIfOwned without error, when no record is left; a StopIfOwned that
\* fails makes cmdDown return an error at once, without the script; and once
\* the script is running cmdDown sends no signal and only returns.
C39_StopBeforeRestore ==
  [][/\ (pc' = "down_script" /\ pc # "down_script") =>
          /\ op = "down" /\ pc = "sio_ret" /\ err = ""
          /\ ~readPID(pidfile).ok
     /\ (op' = "down" /\ op # "down") => pc' = "sio" /\ UNCHANGED <<world, sigs>>
     /\ (op = "down" /\ pc = "sio_ret" /\ err # "") =>
          /\ pc' = "idle" /\ op' = "none"
          /\ lastOp'.op = "down" /\ ~lastOp'.ok
          /\ UNCHANGED world
     /\ (op = "down" /\ pc = "down_script" /\ op' = "down") =>
          pc' = "down_script" /\ sigs' = sigs
     /\ (op = "down" /\ pc = "down_script" /\ pc' = "idle") =>
          UNCHANGED <<started, pidfile>>]_vars

\* vpnrd down has returned the error of StopIfOwned: both signals were
\* sent, the recorded process is alive, and the script was not run.
C39_Witness ==
  /\ pc = "idle" /\ lastOp.op = "down" /\ ~lastOp.ok /\ lastOp.signalled
  /\ \E p \in started : Recorded(p) /\ processAlive(proc, p)

\* C40 as stated: a configuration that config.Load accepted has
\* FailureThreshold >= 1, MaxRecoveries >= 1, RecoverCooldown > 0,
\* HealthTimeout > 0 and CheckInterval >= 1 s, and the interval given to the
\* watchdog's ticker is positive.
C40_AcceptedConfigIsPositive ==
  (mSt.loads = 1 /\ Load(mIn).ok) =>
    /\ mSt.cfg.FailureThreshold >= 1
    /\ mSt.cfg.MaxRecoveries >= 1
    /\ mSt.cfg.RecoverCooldown > 0
    /\ mSt.cfg.HealthTimeout > 0
    /\ mSt.cfg.CheckInterval >= 1
    /\ (mIn.cmd = "run" /\ mSt.pc \in {"body", "running"}) => mSt.interval > 0
====
